---- MODULE Spec2Model ----
(***************************************************************************)
(* Subagent orchestration core of extensions/subagent.ts: the model        *)
(* resolver (readEnabledModels, getAvailableModels, resolveModel), the     *)
(* process runner (runSubagent), the scheduler (mapWithConcurrency) and    *)
(* the tool entry point (execute).                                         *)
(*                                                                         *)
(* The program runs on one JavaScript thread: a handler and every promise  *)
(* continuation it makes ready run to completion before the next event is  *)
(* delivered, so each action below is one event with all its microtasks.   *)
(* Strings are sequences of one-character strings.                         *)
(***************************************************************************)
EXTENDS Integers, Sequences, FiniteSets, TLC

VARIABLES
    registry,    \* ctx.modelRegistry.getAvailable(): sequence of [provider, id]
    settings,    \* ~/.pi/agent/settings.json as readEnabledModels sees it
    params,      \* the request handed to execute
    budget,      \* what the environment may still do: [out, err, faults, exits, abort]
    lookup,      \* one resolver probe: [token, done, models, out]
    models,      \* execute's Map of eligible models (insertion ordered)
    pc,          \* execute: "start", "await", "returned", "threw"
    ret,         \* execute's return value
    nextIndex,   \* mapWithConcurrency's shared index (0-based, as in the code)
    workers,     \* mapWithConcurrency's workers
    runner,      \* per task: the runSubagent invocation and its subprocess
    allResults,  \* execute's allResults: per slot the object it references
    aborted,     \* signal.aborted
    spawned,     \* spy: number of spawn() calls
    updates,     \* spy: number of calls of the caller's onUpdate
    dispatched,  \* spy: per task index, number of calls of fn(item, index)
    snapshot,    \* spy: the details of the last update the caller was handed
    stream,      \* one stdout stream cut into chunks: [bytes, pos]
    tally,       \* one aggregateUsage probe: [results, done, total]
    compact      \* one session_before_compact handling of taskman-compaction.ts

vars == <<registry, settings, params, budget, lookup, models, pc, ret, nextIndex,
          workers, runner, allResults, aborted, spawned, updates, dispatched,
          snapshot, stream, tally, compact>>

(***************************************************************************)
(* Constants of the program and bounds of the model                        *)
(***************************************************************************)
MAX_PARALLEL == 8

MAX_CONCURRENCY == 4

\* Longest tasks array a request carries (one more than MAX_PARALLEL).
MaxTasks == 9

\* An invocation of one task (single mode, a fleet of one) may see, together,
\* RunnerOut stdout chunks, MaxErr stderr chunks, a failing spawn, an exit
\* code other than 0 and the caller's abort.
RunnerOut == 2

MaxErr == 1

\* A fleet of two or more tasks sees one kind of disturbance: MaxFaults
\* failing spawns (error event or exception), or MaxExits subprocesses that
\* exit with a code other than 0, or the caller's abort, or, in fleets of at
\* most SmallFleet tasks, FleetOut stdout chunks.
MaxFaults == 1

MaxExits == 1

FleetOut == 1

SmallFleet == 2

\* Longest registry and longest enabledModels list of a resolver probe.
MaxRegistry == 2

MaxAllow == 2

(***************************************************************************)
(* Strings                                                                 *)
(***************************************************************************)
Min(a, b) == IF a < b THEN a ELSE b

\* String.prototype.toLowerCase on one character of the alphabet used here.
LowerCh(c) == CASE c = "A" -> "a" [] c = "B" -> "b" [] OTHER -> c

toLowerCase(s) == [i \in 1..Len(s) |-> LowerCh(s[i])]

\* String.prototype.includes
includes(s, t) == \E i \in 0..(Len(s) - Len(t)) : SubSeq(s, i + 1, i + Len(t)) = t

\* `${provider}/${id}`
FullSpec(m) == m.provider \o <<"/">> \o m.id

(***************************************************************************)
(* Model resolver                                                          *)
(***************************************************************************)
\* readEnabledModels: the enabledModels list, or [] when the file cannot be
\* read or parsed or has no such key.
readEnabledModels(st) ==
    IF st.kind = "ok" /\ st.hasKey THEN st.list ELSE <<>>

\* new Set(enabledModels.map((m) => m.toLowerCase()))
EnabledSet(enabledModels) ==
    {toLowerCase(enabledModels[i]) : i \in 1..Len(enabledModels)}

\* The filter of getAvailableModels: skip unless enabledSet is empty or has
\* the exact lowercased provider/id.
KeptSubstring(enabledSet, fullSpec) ==
    enabledSet = {} \/ \E e \in enabledSet : includes(fullSpec, e)

Kept(enabledSet, fullSpec) ==
    ~(Cardinality(enabledSet) > 0 /\ fullSpec \notin enabledSet)

\* Map.prototype.set on an insertion-ordered map held as a sequence of
\* [key, provider, id]: an existing key keeps its place and takes the value.
MapSet(map, key, m) ==
    IF \E i \in 1..Len(map) : map[i].key = key
    THEN [i \in 1..Len(map) |->
            IF map[i].key = key
            THEN [key |-> key, provider |-> m.provider, id |-> m.id]
            ELSE map[i]]
    ELSE Append(map, [key |-> key, provider |-> m.provider, id |-> m.id])

RECURSIVE AvailableFrom(_, _, _, _)
AvailableFrom(reg, enabledSet, i, map) ==
    IF i > Len(reg) THEN map
    ELSE LET fullSpec == toLowerCase(FullSpec(reg[i]))
         IN  AvailableFrom(reg, enabledSet, i + 1,
                 IF Kept(enabledSet, fullSpec)
                 THEN MapSet(map, fullSpec, reg[i])
                 ELSE map)

getAvailableModels(reg, st) ==
    AvailableFrom(reg, EnabledSet(readEnabledModels(st)), 1, <<>>)

\* [...models.keys()]
MapKeys(map) == [i \in 1..Len(map) |-> map[i].key]

\* models.get(key): found flag and entry
MapHas(map, key) == \E i \in 1..Len(map) : map[i].key = key

MapGet(map, key) == map[CHOOSE i \in 1..Len(map) : map[i].key = key]

Null == [found |-> FALSE, spec |-> <<>>]

\* resolveModel of execute: models.get(model.toLowerCase()), null when absent.
resolveModelSubstring(map, model) ==
    IF \E i \in 1..Len(map) : includes(map[i].key, toLowerCase(model))
    THEN [found |-> TRUE,
          spec |-> FullSpec(map[CHOOSE i \in 1..Len(map) :
                                   includes(map[i].key, toLowerCase(model))])]
    ELSE Null

resolveModel(map, model) ==
    IF ~MapHas(map, toLowerCase(model)) THEN Null
    ELSE [found |-> TRUE, spec |-> FullSpec(MapGet(map, toLowerCase(model)))]

(***************************************************************************)
(* JavaScript values of the request: undefined, a string, a boolean        *)
(***************************************************************************)
Undef == [t |-> "undef", s |-> <<>>, b |-> FALSE]

Str(x) == [t |-> "str", s |-> x, b |-> FALSE]

Bool(x) == [t |-> "bool", s |-> <<>>, b |-> x]

Truthy(v) == CASE v.t = "undef" -> FALSE
               [] v.t = "str" -> Len(v.s) > 0
               [] v.t = "bool" -> v.b

\* a && b
And(a, b) == IF Truthy(a) THEN b ELSE a

\* a === b: same type and same value, no conversion.
StrictEq(a, b) ==
    /\ a.t = b.t
    /\ CASE a.t = "undef" -> TRUE
         [] a.t = "str" -> a.s = b.s
         [] a.t = "bool" -> a.b = b.b

\* const hasSingle = params.model && params.task
hasSingle(p) == And(p.model, p.task)

\* const hasParallel = params.tasks && params.tasks.length > 0
hasParallel(p) == IF p.tasks.def THEN Bool(Len(p.tasks.list) > 0) ELSE Undef

\* if (hasSingle === hasParallel) return the request-shape error
ShapeRejected(p) == StrictEq(hasSingle(p), hasParallel(p))

\* if (params.tasks.length > MAX_PARALLEL)
TooManyOffByOne(n) == n > MAX_PARALLEL + 1

TooMany(n) == n > MAX_PARALLEL

\* for (const t of params.tasks) if (!resolveModel(t.model)) return ...
UnknownInFirst(map, tasks) ==
    Len(tasks) > 0 /\ ~resolveModel(map, tasks[1].model).found

UnknownInFleet(map, tasks) ==
    \E i \in 1..Len(tasks) : ~resolveModel(map, tasks[i].model).found

(***************************************************************************)
(* SubagentResult, the stream protocol and processLine                     *)
(***************************************************************************)
NoUsage == [input |-> 0, output |-> 0, cacheRead |-> 0, cacheWrite |-> 0,
            cost |-> 0, turns |-> 0]

\* The object runSubagent creates before it spawns.
NewResult(model, task) ==
    [model |-> model, task |-> task, exitCode |-> 0, output |-> <<>>,
     messages |-> <<>>, usage |-> NoUsage, stopReason |-> "", errorMessage |-> <<>>]

\* The object execute puts in allResults before any worker runs (-1 = running).
PendingResult(model, task) ==
    [NewResult(model, task) EXCEPT !.exitCode = -1]

IsSpace(c) == c \in {" ", "\n", "\t", "\r"}

RECURSIVE TrimLeft(_)
TrimLeft(s) == IF Len(s) > 0 /\ IsSpace(s[1]) THEN TrimLeft(Tail(s)) ELSE s

RECURSIVE TrimRight(_)
TrimRight(s) ==
    IF Len(s) > 0 /\ IsSpace(s[Len(s)]) THEN TrimRight(SubSeq(s, 1, Len(s) - 1)) ELSE s

\* String.prototype.trim
trim(s) == TrimRight(TrimLeft(s))

\* data.toString(): the UTF-8 decoding of one chunk on its own. A byte of
\* ASCII is written as its character; "C3" "A9" are the two bytes of one
\* character, U+00E9, and either of them without the other decodes to
\* U+FFFD.
Replacement == "U+FFFD"

RECURSIVE toString(_)
toString(data) ==
    IF Len(data) = 0 THEN <<>>
    ELSE IF Len(data) >= 2 /\ data[1] = "C3" /\ data[2] = "A9"
    THEN <<"U+00E9">> \o toString(SubSeq(data, 3, Len(data)))
    ELSE IF data[1] \in {"C3", "A9"} THEN <<Replacement>> \o toString(Tail(data))
    ELSE <<data[1]>> \o toString(Tail(data))

TextPart(x) == [type |-> "text", text |-> x]

ToolCallPart == [type |-> "toolCall", text |-> <<>>]

\* A field of a message's usage object as JSON.parse leaves it: a number, or
\* undefined when the subprocess did not write it (cost stands for cost.total).
Num(n) == [t |-> "num", n |-> n]

Absent == [t |-> "undef", n |-> 0]

\* usage.input || 0, usage.cost?.total || 0
NumOrZero(v) == IF v.t = "num" THEN v.n ELSE 0

NoMsgUsage == [input |-> Absent, output |-> Absent, cacheRead |-> Absent,
               cacheWrite |-> Absent, cost |-> Absent]

Msg(role, content, hasUsage, stopReason, errorMessage) ==
    [role |-> role, content |-> content, hasUsage |-> hasUsage,
     usage |-> IF hasUsage
               THEN [input |-> Num(2), output |-> Num(1), cacheRead |-> Num(0),
                     cacheWrite |-> Num(0), cost |-> Num(1)]
               ELSE NoMsgUsage,
     stopReason |-> stopReason, errorMessage |-> errorMessage]

\* The text "hi there".
HiThere == <<"h", "i", " ", "t", "h", "e", "r", "e">>

NoMsg == Msg("", <<>>, FALSE, "", <<>>)

\* The event records a subprocess can print, by the letter that stands for
\* their JSON text between "{" and "}".
EventKinds == {"a", "b", "d", "h", "u", "v", "t", "o", "m"}

EventOf(k) ==
    CASE k = "a" -> [type |-> "message_end", hasMessage |-> TRUE,
                     message |-> Msg("assistant", <<TextPart(<<"h", "i">>)>>, TRUE,
                                     "stop", <<>>)]
      [] k = "b" -> [type |-> "message_end", hasMessage |-> TRUE,
                     message |-> Msg("assistant", <<ToolCallPart>>, FALSE,
                                     "error", <<"boom">>)]
      [] k = "d" -> [type |-> "message_end", hasMessage |-> TRUE,
                     message |-> Msg("assistant",
                                     <<ToolCallPart, TextPart(<<"x">>), TextPart(<<"y">>)>>,
                                     FALSE, "", <<>>)]
      [] k = "h" -> [type |-> "message_end", hasMessage |-> TRUE,
                     message |-> [Msg("assistant", <<TextPart(HiThere)>>, TRUE, "stop", <<>>)
                                     EXCEPT !.usage = [NoMsgUsage EXCEPT
                                                          !.input = Num(10),
                                                          !.output = Num(2)]]]
      [] k = "u" -> [type |-> "message_end", hasMessage |-> TRUE,
                     message |-> Msg("user", <<TextPart(<<"q">>)>>, FALSE, "", <<>>)]
      [] k = "v" -> [type |-> "message_end", hasMessage |-> TRUE,
                     message |-> Msg("user", <<TextPart(<<"q">>)>>, TRUE, "", <<>>)]
      [] k = "t" -> [type |-> "tool_result_end", hasMessage |-> TRUE,
                     message |-> Msg("toolResult", <<TextPart(<<"r">>)>>, FALSE, "", <<>>)]
      [] k = "o" -> [type |-> "turn_end", hasMessage |-> TRUE, message |-> NoMsg]
      [] k = "m" -> [type |-> "message_end", hasMessage |-> FALSE, message |-> NoMsg]

\* JSON.parse(line): "syntax" when it throws, "null" for the literal null,
\* "value" for another non-object literal, "object" for an event record.
\* The line {cT} is the message_end of an assistant message whose text is T.
JsonParse(line) ==
    LET t == trim(line) IN
    IF Len(t) = 3 /\ t[1] = "{" /\ t[3] = "}" /\ t[2] \in EventKinds
    THEN [kind |-> "object", event |-> EventOf(t[2])]
    ELSE IF Len(t) > 3 /\ t[1] = "{" /\ t[Len(t)] = "}" /\ t[2] = "c"
    THEN [kind |-> "object",
          event |-> [type |-> "message_end", hasMessage |-> TRUE,
                     message |-> Msg("assistant", <<TextPart(SubSeq(t, 3, Len(t) - 1))>>,
                                     FALSE, "", <<>>)]]
    ELSE IF t = <<"n">> THEN [kind |-> "null", event |-> EventOf("o")]
    ELSE IF t = <<"7">> THEN [kind |-> "value", event |-> EventOf("o")]
    ELSE [kind |-> "syntax", event |-> EventOf("o")]

\* getFinalOutput: the first text part of the last assistant message that has one.
FirstText(content) ==
    IF \E j \in 1..Len(content) : content[j].type = "text"
    THEN content[CHOOSE j \in 1..Len(content) :
                    /\ content[j].type = "text"
                    /\ \A h \in 1..(j - 1) : content[h].type # "text"].text
    ELSE <<>>

HasText(m) == m.role = "assistant" /\ \E j \in 1..Len(m.content) : m.content[j].type = "text"

getFinalOutputThisMessage(messages) ==
    IF Len(messages) > 0 /\ HasText(messages[Len(messages)])
    THEN FirstText(messages[Len(messages)].content)
    ELSE <<>>

getFinalOutput(messages) ==
    IF \E i \in 1..Len(messages) : HasText(messages[i])
    THEN FirstText(messages[CHOOSE i \in 1..Len(messages) :
                               /\ HasText(messages[i])
                               /\ \A h \in (i + 1)..Len(messages) : ~HasText(messages[h])].content)
    ELSE <<>>

\* The message_end branch of processLine for an assistant message.
AssistantEndLastUsage(res, msg) ==
    LET pushed == Append(res.messages, msg)
        u == res.usage
        u1 == [u EXCEPT !.turns = @ + 1]
        u2 == IF msg.hasUsage
              THEN [u1 EXCEPT !.input = NumOrZero(msg.usage.input),
                              !.output = NumOrZero(msg.usage.output),
                              !.cacheRead = NumOrZero(msg.usage.cacheRead),
                              !.cacheWrite = NumOrZero(msg.usage.cacheWrite),
                              !.cost = NumOrZero(msg.usage.cost)]
              ELSE u1
    IN  [res EXCEPT !.messages = pushed,
                    !.usage = u2,
                    !.output = getFinalOutput(pushed),
                    !.stopReason = IF msg.stopReason # "" THEN msg.stopReason ELSE @,
                    !.errorMessage = IF Len(msg.errorMessage) > 0 THEN msg.errorMessage ELSE @]

AssistantEnd(res, msg) ==
    LET pushed == Append(res.messages, msg)
        u == res.usage
        u1 == [u EXCEPT !.turns = @ + 1]
        u2 == IF msg.hasUsage
              THEN [u1 EXCEPT !.input = @ + NumOrZero(msg.usage.input),
                              !.output = @ + NumOrZero(msg.usage.output),
                              !.cacheRead = @ + NumOrZero(msg.usage.cacheRead),
                              !.cacheWrite = @ + NumOrZero(msg.usage.cacheWrite),
                              !.cost = @ + NumOrZero(msg.usage.cost)]
              ELSE u1
    IN  [res EXCEPT !.messages = pushed,
                    !.usage = u2,
                    !.output = getFinalOutput(pushed),
                    !.stopReason = IF msg.stopReason # "" THEN msg.stopReason ELSE @,
                    !.errorMessage = IF Len(msg.errorMessage) > 0 THEN msg.errorMessage ELSE @]

\* The tool_result_end branch of processLine: result.messages.push(event.message)
ToolResultEndCountsTurn(res, msg) ==
    [res EXCEPT !.messages = Append(@, msg), !.usage.turns = @ + 1]

ToolResultEnd(res, msg) == [res EXCEPT !.messages = Append(@, msg)]

\* processLine(line): the result after it, the number of emitUpdate calls it
\* made, and whether it threw (event.type of null is a TypeError).
\* The body of processLine once JSON.parse has returned or thrown; p is
\* what JsonParse gives for the line.
processParsed(res, p) ==
    LET ev == p.event IN
    CASE p.kind = "syntax" -> [res |-> res, ups |-> 0, threw |-> FALSE]
      [] p.kind = "null" -> [res |-> res, ups |-> 0, threw |-> TRUE]
      [] p.kind = "value" -> [res |-> res, ups |-> 0, threw |-> FALSE]
      [] OTHER ->
           IF ev.type = "message_end" /\ ev.hasMessage
           THEN [res |-> IF ev.message.role = "assistant"
                         THEN AssistantEnd(res, ev.message)
                         ELSE [res EXCEPT !.messages = Append(@, ev.message)],
                 ups |-> 1, threw |-> FALSE]
           ELSE IF ev.type = "tool_result_end" /\ ev.hasMessage
           THEN [res |-> ToolResultEnd(res, ev.message),
                 ups |-> 1, threw |-> FALSE]
           ELSE [res |-> res, ups |-> 0, threw |-> FALSE]

processLine(res, line) ==
    IF Len(trim(line)) = 0 THEN [res |-> res, ups |-> 0, threw |-> FALSE]
    ELSE processParsed(res, JsonParse(line))

\* for (const line of lines) processLine(line): stops at the first throw.
\* `one` is what processLine made of the first of `lines`.
RECURSIVE processLines(_, _, _)
afterLine(one, lines, ups) ==
    IF one.threw THEN [res |-> one.res, ups |-> ups + one.ups, threw |-> TRUE]
    ELSE processLines(one.res, Tail(lines), ups + one.ups)

processLines(res, lines, ups) ==
    IF Len(lines) = 0 THEN [res |-> res, ups |-> ups, threw |-> FALSE]
    ELSE afterLine(processLine(res, Head(lines)), lines, ups)

\* buffer.split("\n"): the pieces between newlines, the last one included.
RECURSIVE split(_, _, _)
split(s, cur, acc) ==
    IF Len(s) = 0 THEN Append(acc, cur)
    ELSE IF Head(s) = "\n" THEN split(Tail(s), <<>>, Append(acc, cur))
    ELSE split(Tail(s), Append(cur, Head(s)), acc)

(***************************************************************************)
(* runSubagent: one invocation and its subprocess                          *)
(***************************************************************************)
\* The close event's code when the subprocess was ended by a signal (null).
NullCode == 1000

\* The close event's code after a failed spawn (a negative errno).
ErrnoCode == 0 - 2

CodeStr(code) ==
    CASE code = 0 -> "0" [] code = 1 -> "1" [] code = 2 -> "2"
      [] code = NullCode -> "null" [] OTHER -> "-2"

\* code ?? 0
OrZero(code) == IF code = NullCode THEN 0 ELSE code

Idle ==
    [st |-> "none",            \* the promise runSubagent returned
     proc |-> "none",          \* the subprocess: none, running, failed, closed
     errEv |-> FALSE,          \* the error event was delivered
     result |-> NewResult(<<>>, <<>>),
     buffer |-> <<>>, stderr |-> <<>>,
     wasAborted |-> FALSE,
     listening |-> FALSE,      \* the abort listener is registered
     killed |-> FALSE,         \* proc.killed
     timer |-> FALSE,          \* the 3000 ms timer is pending
     sigs |-> <<>>,            \* signals delivered to the subprocess
     code |-> <<>>,            \* the code of the close event, once delivered
     resolves |-> 0]           \* calls of resolve()

\* proc.kill(sig): delivered, and proc.killed set, only if the process lives.
procKill(r, sig) ==
    IF r.proc = "running"
    THEN [r EXCEPT !.killed = TRUE, !.sigs = Append(@, sig)]
    ELSE r

\* const kill = () => { wasAborted = true; proc.kill("SIGTERM"); setTimeout(...) }
\* A timer set for a subprocess that has closed finds nothing to signal
\* (procKill leaves the runner as it is), so it is not kept in the state.
killMarksResult(r) ==
    [procKill(r, "SIGTERM") EXCEPT !.wasAborted = TRUE, !.listening = FALSE,
                                   !.timer = (r.proc # "closed"),
                                   !.result = [@ EXCEPT !.stopReason = "aborted",
                                                        !.errorMessage = <<"Aborted by user">>]]

kill(r) ==
    [procKill(r, "SIGTERM") EXCEPT !.wasAborted = TRUE, !.listening = FALSE,
                                   !.timer = (r.proc # "closed")]

\* setTimeout(() => { if (!proc.killed) proc.kill("SIGKILL") }, 3000)
killTimer(r) ==
    [(IF ~r.killed THEN procKill(r, "SIGKILL") ELSE r) EXCEPT !.timer = FALSE]

\* The synchronous part of runSubagent, up to its await. `outcome` is what
\* spawn does: "ok", "fail" (error event to come) or "throw".
LaunchListensOnly(model, task, outcome, sigAborted) ==
    LET base == [Idle EXCEPT !.result = NewResult(model, task)] IN
    IF outcome = "throw" THEN [base EXCEPT !.st = "rejected"]
    ELSE [base EXCEPT !.st = "pending",
                      !.proc = IF outcome = "ok" THEN "running" ELSE "failed",
                      !.listening = TRUE]

Launch(model, task, outcome, sigAborted) ==
    LET base == [Idle EXCEPT !.result = NewResult(model, task)] IN
    IF outcome = "throw" THEN [base EXCEPT !.st = "rejected"]
    ELSE LET r0 == [base EXCEPT !.st = "pending",
                                !.proc = IF outcome = "ok" THEN "running" ELSE "failed"]
         IN  IF sigAborted THEN kill(r0) ELSE [r0 EXCEPT !.listening = TRUE]

\* resolve(exitCode) and the rest of runSubagent after its await.
FinishNoOverride(r, exitCode) ==
    IF r.st # "pending" THEN [r EXCEPT !.resolves = @ + 1]
    ELSE [r EXCEPT !.st = "resolved", !.resolves = @ + 1,
                   !.result = [@ EXCEPT !.exitCode = exitCode]]

Finish(r, exitCode) ==
    IF r.st # "pending" THEN [r EXCEPT !.resolves = @ + 1]
    ELSE [r EXCEPT !.st = "resolved", !.resolves = @ + 1,
                   !.result = [@ EXCEPT
                       !.exitCode = exitCode,
                       !.stopReason = IF r.wasAborted THEN "aborted" ELSE @,
                       !.errorMessage = IF r.wasAborted
                                        THEN <<"Aborted by user">> ELSE @]]

\* proc.stdout.on("data"): the runner after it, emitUpdate calls, threw, and
\* the result as it was at the last emitUpdate call.
\* `lines` is buffer.split("\n") and `done` what the loop over all but the
\* last of them (buffer = lines.pop() || "") left.
afterLines(r, lines, done) ==
    [r |-> [r EXCEPT !.buffer = lines[Len(lines)], !.result = done.res],
     ups |-> done.ups, threw |-> done.threw, shown |-> done.res]

splitLines(r, lines) ==
    afterLines(r, lines, processLines(r.result, SubSeq(lines, 1, Len(lines) - 1), 0))

DataHandler(r, data) == splitLines(r, split(r.buffer \o toString(data), <<>>, <<>>))

\* if (code !== 0 && !result.errorMessage)
\*     result.errorMessage = stderr.trim() || `Exit code ${code}`
closeMessageStderrWins(res, stderr, code) ==
    IF code # 0
    THEN [res EXCEPT !.errorMessage = IF Len(trim(stderr)) > 0 THEN trim(stderr)
                                      ELSE <<"Exit code ", CodeStr(code)>>]
    ELSE res

closeMessage(res, stderr, code) ==
    IF code # 0 /\ Len(res.errorMessage) = 0
    THEN [res EXCEPT !.errorMessage = IF Len(trim(stderr)) > 0 THEN trim(stderr)
                                      ELSE <<"Exit code ", CodeStr(code)>>]
    ELSE res

\* proc.on("close"): the runner after it (resolve included), emitUpdate
\* calls, threw (then resolve was not reached).
\* `last` is what if (buffer.trim()) processLine(buffer) left.
afterBuffer(r, code, last) ==
    LET withMsg == closeMessage(last.res, r.stderr, code)
        closed == [r EXCEPT !.proc = "closed", !.timer = FALSE, !.code = <<code>>]
    IN  IF last.threw
        THEN [r |-> [closed EXCEPT !.result = last.res], ups |-> last.ups, threw |-> TRUE,
              shown |-> last.res]
        ELSE [r |-> Finish([closed EXCEPT !.result = withMsg], OrZero(code)),
              ups |-> last.ups, threw |-> FALSE, shown |-> last.res]

CloseHandler(r, code) ==
    afterBuffer(r, code,
                IF Len(trim(r.buffer)) > 0 THEN processLine(r.result, r.buffer)
                ELSE [res |-> r.result, ups |-> 0, threw |-> FALSE])

\* proc.on("error")
ErrorHandlerSilent(r) == Finish([r EXCEPT !.errEv = TRUE], 1)

ErrorHandler(r) ==
    Finish([r EXCEPT !.errEv = TRUE,
                     !.result = [@ EXCEPT !.errorMessage = <<"spawn ENOENT">>]], 1)

(***************************************************************************)
(* mapWithConcurrency and execute                                          *)
(***************************************************************************)
SpawnOutcomes == {"ok", "fail", "throw"}

\* Array.from({ length: Math.min(concurrency, items.length) }, ...)
PoolSizeUnbounded(concurrency, n) == n

PoolSize(concurrency, n) == Min(concurrency, n)

\* const index = nextIndex++ : the shared index after the claim.
NextAfterClaimStuck(ni) == ni

NextAfterClaim(ni) == ni + 1

\* await Promise.all(workers) resolves when every worker has returned.
AllSettledAny(ws) == \E k \in 1..Len(ws) : ws[k].st = "done"

AllSettled(ws) == \A k \in 1..Len(ws) : ws[k].st = "done"

\* Promise.all rejects as soon as one worker has rejected.
AnyRejected(ws) == \E k \in 1..Len(ws) : ws[k].st = "rejected"

\* One turn of a worker's loop, on the scheduler state
\* sch = [nextIndex, workers, runner, dispatched, spawned]:
\*   while (nextIndex < items.length) { const index = nextIndex++; await fn(items[index], index) }
\* fn runs runSubagent up to its await; a spawn that throws rejects the
\* runner, fn and the worker in the microtasks that follow.
WorkerTurnFromTheEnd(sch, k, tasks, map, outcome, sigAborted) ==
    IF sch.nextIndex < Len(tasks)
    THEN LET i == Len(tasks) - sch.nextIndex
             spec == resolveModel(map, tasks[i].model).spec
         IN  [nextIndex |-> NextAfterClaim(sch.nextIndex),
              workers |-> [sch.workers EXCEPT ![k] =
                              [st |-> IF outcome = "throw" THEN "rejected" ELSE "awaiting",
                               index |-> i]],
              runner |-> [sch.runner EXCEPT ![i] =
                              Launch(spec, tasks[i].task, outcome, sigAborted)],
              dispatched |-> [sch.dispatched EXCEPT ![i] = @ + 1],
              spawned |-> sch.spawned + 1]
    ELSE [sch EXCEPT !.workers[k] = [st |-> "done", index |-> 0]]

WorkerTurnOwnTask(sch, k, tasks, map, outcome, sigAborted) ==
    IF sch.nextIndex < Len(tasks)
    THEN LET i == sch.nextIndex + 1
             spec == resolveModel(map, tasks[k].model).spec
         IN  [nextIndex |-> NextAfterClaim(sch.nextIndex),
              workers |-> [sch.workers EXCEPT ![k] =
                              [st |-> IF outcome = "throw" THEN "rejected" ELSE "awaiting",
                               index |-> i]],
              runner |-> [sch.runner EXCEPT ![i] =
                              Launch(spec, tasks[k].task, outcome, sigAborted)],
              dispatched |-> [sch.dispatched EXCEPT ![i] = @ + 1],
              spawned |-> sch.spawned + 1]
    ELSE [sch EXCEPT !.workers[k] = [st |-> "done", index |-> 0]]

WorkerTurn(sch, k, tasks, map, outcome, sigAborted) ==
    IF sch.nextIndex < Len(tasks)
    THEN LET i == sch.nextIndex + 1
             spec == resolveModel(map, tasks[i].model).spec
         IN  [nextIndex |-> NextAfterClaim(sch.nextIndex),
              workers |-> [sch.workers EXCEPT ![k] =
                              [st |-> IF outcome = "throw" THEN "rejected" ELSE "awaiting",
                               index |-> i]],
              runner |-> [sch.runner EXCEPT ![i] =
                              Launch(spec, tasks[i].task, outcome, sigAborted)],
              dispatched |-> [sch.dispatched EXCEPT ![i] = @ + 1],
              spawned |-> sch.spawned + 1]
    ELSE [sch EXCEPT !.workers[k] = [st |-> "done", index |-> 0]]

\* The workers Array.from creates, each run up to its first await.
RECURSIVE StartWorkers(_, _, _, _, _, _, _)
StartWorkers(sch, k, w, tasks, map, outs, sigAborted) ==
    IF k > w THEN sch
    ELSE StartWorkers(WorkerTurn(sch, k, tasks, map, outs[k], sigAborted),
                      k + 1, w, tasks, map, outs, sigAborted)

\* The object slot i of allResults references: execute's own initial object
\* ("init") or the result object of the task's runner ("live").
Deref(slots, rs, tasks, map, i) ==
    IF slots[i] = "live" THEN rs[i].result
    ELSE PendingResult(resolveModel(map, tasks[i].model).spec, tasks[i].task)

\* allResults.filter((r) => r.exitCode === 0).length
SuccessCountNotRunning(slots, rs, tasks, map) ==
    Cardinality({i \in 1..Len(slots) : Deref(slots, rs, tasks, map, i).exitCode # -1})

SuccessCount(slots, rs, tasks, map) ==
    Cardinality({i \in 1..Len(slots) : Deref(slots, rs, tasks, map, i).exitCode = 0})

\* allResults.filter((r) => r.exitCode !== -1).length
DoneCount(slots, rs, tasks, map) ==
    Cardinality({i \in 1..Len(slots) : Deref(slots, rs, tasks, map, i).exitCode # -1})

\* The details of an update as the caller receives them: `held` is the
\* array of references it is handed ([...allResults], or [r] in single
\* mode), `seen` the values they had when it was called, `done` the count
\* in the text, `finished` the tasks whose runner had resolved by then and
\* `exited` those whose subprocess had closed.
NoSnapshot == [held |-> <<>>, seen |-> <<>>, done |-> 0, finished |-> {}, exited |-> {}]

Snap(slots, rs, tasks, map) ==
    [held |-> slots,
     seen |-> [j \in 1..Len(slots) |-> Deref(slots, rs, tasks, map, j)],
     done |-> DoneCount(slots, rs, tasks, map),
     finished |-> {j \in 1..Len(slots) : rs[j].st = "resolved"},
     exited |-> {j \in 1..Len(slots) : rs[j].proc = "closed"}]

NoStream == [bytes |-> <<>>, pos |-> 0]

NoTally == [results |-> <<>>, done |-> FALSE, total |-> NoUsage]

\* No compaction is being handled.
NoCompact ==
    [variant |-> "agent",      \* "agent": taskman-compaction.ts, "prompt": its earlier form
     skill |-> "missing",      \* the handoff skill file: missing, empty, present
     pc |-> "off",             \* the handler: off, new, key, complete, tools, returned, threw
     aborted |-> FALSE,        \* event.signal.aborted
     turn |-> 0,               \* the agent loop's turn
     summary |-> <<>>,         \* the agent loop's summary
     out |-> "none",           \* what the handler returned: none, default, compaction
     calls |-> 0,              \* spy: calls of complete()
     execs |-> 0,              \* spy: calls of a read/write/edit tool's execute
     notes |-> <<>>]           \* spy: the levels of the ctx.ui.notify calls

\* `details` is details.results as the caller reads it at the return.
NoRet == [kind |-> "none", isError |-> FALSE, listsModels |-> FALSE,
          available |-> <<>>, successCount |-> 0, total |-> 0, details |-> <<>>]

\* The three validation errors execute returns.
ShapeError(map) ==
    [NoRet EXCEPT !.kind = "shape", !.isError = TRUE, !.listsModels = TRUE,
                  !.available = MapKeys(map)]

TooManyError == [NoRet EXCEPT !.kind = "too_many", !.isError = TRUE]

UnknownModelError(map) ==
    [NoRet EXCEPT !.kind = "unknown_model", !.isError = TRUE, !.listsModels = TRUE,
                  !.available = MapKeys(map)]

\* The final result of parallel mode.
ParallelResult(slots, rs, tasks, map) ==
    LET successCount == SuccessCount(slots, rs, tasks, map) IN
    [NoRet EXCEPT !.kind = "parallel", !.successCount = successCount,
                  !.total = Len(slots), !.available = MapKeys(map),
                  !.details = [i \in 1..Len(slots) |-> Deref(slots, rs, tasks, map, i)],
                  !.isError = successCount < Len(slots)]

\* The final result of single mode.
SingleResultExitOnly(res, map) ==
    [NoRet EXCEPT !.kind = "single", !.total = 1, !.available = MapKeys(map),
                  !.details = <<res>>,
                  !.successCount = IF res.exitCode = 0 THEN 1 ELSE 0,
                  !.isError = res.exitCode # 0]

SingleResult(res, map) ==
    [NoRet EXCEPT !.kind = "single", !.total = 1, !.available = MapKeys(map),
                  !.details = <<res>>,
                  !.successCount = IF res.exitCode = 0 THEN 1 ELSE 0,
                  !.isError = \/ res.exitCode # 0
                              \/ res.stopReason = "error"
                              \/ res.stopReason = "aborted"]

\* Which branch the synchronous part of execute takes.
Branch(p, map) ==
    IF ShapeRejected(p) THEN "shape"
    ELSE IF Truthy(hasParallel(p))
    THEN IF TooMany(Len(p.tasks.list)) THEN "too_many"
         ELSE IF UnknownInFleet(map, p.tasks.list) THEN "unknown_model"
         ELSE "parallel"
    ELSE IF p.model.t = "undef" THEN "type_error"   \* params.model!.toLowerCase()
         ELSE IF ~resolveModel(map, p.model.s).found THEN "unknown_model"
         ELSE "single"

\* Number of spawn calls the synchronous part of execute makes.
FirstSpawns(p, map) ==
    CASE Branch(p, map) = "parallel" -> PoolSize(MAX_CONCURRENCY, Len(p.tasks.list))
      [] Branch(p, map) = "single" -> 1
      [] OTHER -> 0

Idles(n) == [i \in 1..n |-> Idle]

\* Number of spawn calls, among those of one step, that do not succeed.
Faults(outs) == Cardinality({k \in DOMAIN outs : outs[k] # "ok"})

(***************************************************************************)
(* Actions                                                                 *)
(***************************************************************************)
\* execute, from its call to its first await or its return.
Execute ==
    /\ pc = "start"
    /\ LET map == getAvailableModels(registry, settings)
           br == Branch(params, map)
       IN  /\ models' = map
           /\ \E outs \in [1..FirstSpawns(params, map) -> SpawnOutcomes] :
                /\ Faults(outs) <= budget.faults
                /\ budget' = [budget EXCEPT !.faults = @ - Faults(outs)]
                /\ IF br = "parallel"
                   THEN LET tasks == params.tasks.list
                            n == Len(tasks)
                            sch == StartWorkers(
                                       [nextIndex |-> 0,
                                        workers |-> [k \in 1..PoolSize(MAX_CONCURRENCY, n) |->
                                                        [st |-> "new", index |-> 0]],
                                        runner |-> Idles(n),
                                        dispatched |-> [i \in 1..n |-> 0],
                                        spawned |-> 0],
                                       1, PoolSize(MAX_CONCURRENCY, n), tasks, map, outs, aborted)
                        IN  /\ nextIndex' = sch.nextIndex
                            /\ workers' = sch.workers
                            /\ runner' = sch.runner
                            /\ dispatched' = sch.dispatched
                            /\ spawned' = sch.spawned
                            /\ allResults' = [i \in 1..n |-> "init"]
                            /\ updates' = 1
                            /\ snapshot' = Snap([i \in 1..n |-> "init"], Idles(n), tasks, map)
                            /\ pc' = IF AnyRejected(sch.workers) THEN "threw"
                                     ELSE IF AllSettled(sch.workers) THEN "returned"
                                     ELSE "await"
                            /\ ret' = IF ~AnyRejected(sch.workers) /\ AllSettled(sch.workers)
                                      THEN ParallelResult([i \in 1..n |-> "init"], sch.runner,
                                                          tasks, map)
                                      ELSE NoRet
                   ELSE IF br = "single"
                   THEN /\ runner' = <<Launch(resolveModel(map, params.model.s).spec,
                                              params.task.s, outs[1], aborted)>>
                        /\ spawned' = 1
                        /\ dispatched' = <<1>>
                        /\ pc' = IF outs[1] = "throw" THEN "threw" ELSE "await"
                        /\ ret' = NoRet
                        /\ UNCHANGED <<nextIndex, workers, allResults, updates, snapshot>>
                   ELSE /\ pc' = IF br = "type_error" THEN "threw" ELSE "returned"
                        /\ ret' = CASE br = "shape" -> ShapeError(map)
                                    [] br = "too_many" -> TooManyError
                                    [] br = "unknown_model" -> UnknownModelError(map)
                                    [] OTHER -> NoRet
                        /\ UNCHANGED <<nextIndex, workers, runner, allResults, updates,
                                       spawned, dispatched, snapshot>>
    /\ UNCHANGED <<registry, settings, params, lookup, aborted, stream, tally, compact>>

\* What follows a handler of task i's subprocess that left its runner as r1
\* after `ups` calls of emitUpdate: the caller's progress updates and, when
\* the handler resolved the runner, the continuations of runSubagent, fn,
\* the worker (which claims the next task; `outcome` is what its spawn
\* does) and execute. `crash` is an exception the handler let escape with
\* no uncaughtException handler installed: the host process ends. b1 is the
\* budget left after the event.
After(i, r1, ups, outcome, crash, b1, shown) ==
    LET par == Len(workers) > 0
        tasks == params.tasks.list
        settled == runner[i].st = "pending" /\ r1.st = "resolved"
        rs1 == [runner EXCEPT ![i] = r1]
        slots1 == IF par /\ (ups > 0 \/ settled)
                  THEN [allResults EXCEPT ![i] = "live"] ELSE allResults
        ups1 == updates + ups + (IF par /\ settled THEN 1 ELSE 0)
        \* the runners when processLine last called emitUpdate
        rsShown == [runner EXCEPT ![i] = [r1 EXCEPT !.st = runner[i].st,
                                                    !.result = shown]]
    IN  /\ updates' = ups1
        /\ allResults' = slots1
        /\ snapshot' = IF par /\ settled THEN Snap(slots1, rs1, tasks, models)
                       ELSE IF ups > 0 /\ par THEN Snap(slots1, rsShown, tasks, models)
                       ELSE IF ups > 0 THEN Snap(<<"live">>, rsShown, <<>>, models)
                       ELSE snapshot
        /\ IF settled /\ par
           THEN LET k == CHOOSE k \in 1..Len(workers) :
                             workers[k].st = "awaiting" /\ workers[k].index = i
                    sch == WorkerTurn([nextIndex |-> nextIndex, workers |-> workers,
                                       runner |-> rs1, dispatched |-> dispatched,
                                       spawned |-> spawned],
                                      k, tasks, models, outcome, aborted)
                    returns == pc = "await" /\ ~AnyRejected(sch.workers)
                                            /\ AllSettled(sch.workers)
                IN  /\ nextIndex' = sch.nextIndex
                    /\ workers' = sch.workers
                    /\ runner' = sch.runner
                    /\ dispatched' = sch.dispatched
                    /\ spawned' = sch.spawned
                    /\ budget' = [b1 EXCEPT !.faults =
                                     IF sch.spawned > spawned /\ outcome # "ok"
                                     THEN @ - 1 ELSE @]
                    /\ pc' = IF pc # "await" THEN pc
                             ELSE IF AnyRejected(sch.workers) THEN "threw"
                             ELSE IF AllSettled(sch.workers) THEN "returned"
                             ELSE "await"
                    /\ ret' = IF returns
                              THEN ParallelResult(slots1, sch.runner, tasks, models)
                              ELSE ret
           ELSE /\ runner' = rs1
                /\ pc' = IF crash THEN "crashed"
                         ELSE IF settled /\ pc = "await" THEN "returned"
                         ELSE pc
                /\ ret' = IF settled /\ pc = "await" /\ ~crash
                          THEN SingleResult(r1.result, models) ELSE ret
                /\ budget' = b1
                /\ UNCHANGED <<nextIndex, workers, dispatched, spawned>>

\* What follows a stdout or close handler of task i that returned h: the
\* exception it let escape, if it threw, may or may not end the host process.
Handled(i, h, outcome, b1) ==
    \E crash \in (IF h.threw THEN BOOLEAN ELSE {FALSE}) :
       After(i, h.r, h.ups, outcome, crash, b1, h.shown)

\* Whether the worker awaiting task i claims another task when i resolves.
WillClaim(i) ==
    /\ Len(workers) > 0
    /\ runner[i].st = "pending"
    /\ nextIndex < Len(params.tasks.list)

OutcomesNow(i) ==
    IF WillClaim(i) /\ budget.faults > 0 THEN SpawnOutcomes ELSE {"ok"}

\* What the subprocesses write.
Chunks ==
    { <<"{", "a", "}", "\n">>, <<"{", "b", "}", "\n">>, <<"{", "h", "}", "\n">>,
      <<"{", "t", "}", "\n">>,
      <<"{", "u", "}", "\n">>, <<"{", "a">>, <<"}", "\n">>, <<"x", "\n">>,
      <<"n", "\n">>, <<"n">>, <<" ", "\n">> }

ErrChunks == { <<"e", " ">>, <<" ">> }

\* A data event of task i's stdout.
StdoutData(i, data) ==
    /\ pc # "crashed"
    /\ runner[i].proc = "running"
    /\ budget.out > 0
    /\ Handled(i, DataHandler(runner[i], data), "ok", [budget EXCEPT !.out = @ - 1])
    /\ UNCHANGED <<registry, settings, params, lookup, models, aborted, stream, tally, compact>>

\* A data event of task i's stderr.
StderrData(i, data) ==
    /\ pc # "crashed"
    /\ runner[i].proc = "running"
    /\ budget.err > 0
    /\ runner' = [runner EXCEPT ![i].stderr = @ \o toString(data)]
    /\ budget' = [budget EXCEPT !.err = @ - 1]
    /\ UNCHANGED <<registry, settings, params, lookup, models, pc, ret, nextIndex,
                   workers, allResults, aborted, spawned, updates, dispatched,
                   snapshot, stream, tally, compact>>

\* The codes task i's subprocess can close with: its own exit code, null
\* when a signal ended it (the runner's own, or one from outside such as
\* the kernel's), the errno after a failed spawn.
CloseCodes(r) ==
    IF r.proc = "failed" THEN {ErrnoCode}
    ELSE {0, 2, NullCode}

\* The code a subprocess closes with when left alone: 0, or null once a
\* signal was delivered to it. Another code is counted against budget.exits.
PlainCode(r) == IF Len(r.sigs) > 0 THEN NullCode ELSE 0

\* The close event of task i's subprocess.
Close(i, code) ==
    /\ pc # "crashed"
    /\ IF runner[i].proc = "failed" THEN runner[i].errEv
       ELSE runner[i].proc = "running" /\ (code # PlainCode(runner[i]) => budget.exits > 0)
    /\ code \in CloseCodes(runner[i])
    /\ \E outcome \in OutcomesNow(i) :
          Handled(i, CloseHandler(runner[i], code), outcome,
                  [budget EXCEPT !.exits = IF /\ runner[i].proc = "running"
                                              /\ code # PlainCode(runner[i])
                                           THEN @ - 1 ELSE @])
    /\ UNCHANGED <<registry, settings, params, lookup, models, aborted, stream, tally, compact>>

\* The error event of task i's subprocess (the spawn failed).
ErrorEvent(i) ==
    /\ pc # "crashed"
    /\ runner[i].proc = "failed"
    /\ ~runner[i].errEv
    /\ \E outcome \in OutcomesNow(i) :
          After(i, ErrorHandler(runner[i]), 0, outcome, FALSE, budget, runner[i].result)
    /\ UNCHANGED <<registry, settings, params, lookup, models, aborted, stream, tally, compact>>

\* The caller aborts the signal: every registered listener runs kill.
Abort ==
    /\ pc # "crashed"
    /\ ~aborted
    /\ budget.abort > 0
    /\ aborted' = TRUE
    /\ budget' = [budget EXCEPT !.abort = @ - 1]
    /\ runner' = [i \in 1..Len(runner) |->
                     IF runner[i].listening THEN kill(runner[i]) ELSE runner[i]]
    /\ UNCHANGED <<registry, settings, params, lookup, models, pc, ret,
                   nextIndex, workers, allResults, spawned, updates, dispatched,
                   snapshot, stream, tally, compact>>

\* The 3000 ms timer of task i's kill fires. Timers of one delay fire in
\* the order they were set, which is the order of the task indices.
KillTimer(i) ==
    /\ pc # "crashed"
    /\ runner[i].timer
    /\ \A j \in 1..(i - 1) : ~runner[j].timer
    /\ runner' = [runner EXCEPT ![i] = killTimer(runner[i])]
    /\ UNCHANGED <<registry, settings, params, budget, lookup, models, pc, ret,
                   nextIndex, workers, allResults, aborted, spawned, updates,
                   dispatched, snapshot, stream, tally, compact>>

(***************************************************************************)
(* Requests and specifications                                             *)
(***************************************************************************)
\* The registry and the settings of the invocations: "A/b" is allowed by an
\* entry written in another case, "b/b" has a key but is not allowed.
TheRegistry == << [provider |-> <<"A">>, id |-> <<"b">>],
                  [provider |-> <<"b">>, id |-> <<"b">>] >>

TheSettings == [kind |-> "ok", hasKey |-> TRUE, list |-> << <<"A", "/", "B">> >>]

GoodToken == <<"a", "/", "B">>

BadToken == <<"b", "/", "b">>

TaskOf(token) == [model |-> token, task |-> <<"t">>]

\* The task at position i of a fleet: each position has a text of its own.
TaskAt(token, i) == [model |-> token, task |-> [k \in 1..i |-> "t"]]

NoTasks == [def |-> FALSE, list |-> <<>>]

Fleets(maxLen) ==
    UNION {{[i \in 1..n |-> TaskAt(m[i], i)] : m \in [1..n -> {GoodToken, BadToken}]} :
           n \in 1..maxLen}

\* Requests of one shape, of no shape, and of both shapes.
SingleRequests ==
    [model : {Undef, Str(<<>>), Str(GoodToken), Str(BadToken)},
     task : {Undef, Str(<<>>), Str(<<"t">>)},
     tasks : {NoTasks, [def |-> TRUE, list |-> <<>>]}]

FleetRequests ==
    [model : {Undef}, task : {Undef},
     tasks : {[def |-> TRUE, list |-> l] : l \in Fleets(MaxTasks)}]

BothRequests ==
    [model : {Str(GoodToken), Str(BadToken)}, task : {Str(<<"t">>)},
     tasks : {[def |-> TRUE, list |-> l] : l \in Fleets(1)}
             \cup {[def |-> TRUE, list |-> [i \in 1..MaxTasks |-> TaskAt(GoodToken, i)]]}]

NoLookup == [token |-> <<>>, done |-> FALSE, models |-> <<>>, out |-> Null]

InitCommon ==
    /\ lookup = NoLookup
    /\ models = <<>>
    /\ pc = "start"
    /\ ret = NoRet
    /\ nextIndex = 0
    /\ workers = <<>>
    /\ runner = <<>>
    /\ allResults = <<>>
    /\ aborted = FALSE
    /\ spawned = 0
    /\ updates = 0
    /\ dispatched = <<>>
    /\ snapshot = NoSnapshot
    /\ tally = NoTally
    /\ compact = NoCompact

\* The budgets of an invocation with n tasks.
Quiet == [out |-> 0, err |-> 0, faults |-> 0, exits |-> 0, abort |-> 0]

BudgetsFor(n) ==
    IF n <= 1
    THEN {[out |-> RunnerOut, err |-> MaxErr, faults |-> 1, exits |-> 1, abort |-> 1]}
    ELSE {[Quiet EXCEPT !.faults = MaxFaults], [Quiet EXCEPT !.exits = MaxExits],
          [Quiet EXCEPT !.abort = 1]}
         \cup (IF n <= SmallFleet THEN {[Quiet EXCEPT !.out = FleetOut]} ELSE {})

Init ==
    /\ registry = TheRegistry
    /\ settings = TheSettings
    /\ params \in SingleRequests \cup FleetRequests \cup BothRequests
    /\ budget \in BudgetsFor(Len(params.tasks.list))
    /\ stream = NoStream
    /\ InitCommon

Next ==
    \/ Execute
    \/ \E i \in 1..Len(runner) : \E data \in Chunks : StdoutData(i, data)
    \/ \E i \in 1..Len(runner) : \E data \in ErrChunks : StderrData(i, data)
    \/ \E i \in 1..Len(runner) : \E code \in {0, 2, NullCode, ErrnoCode} : Close(i, code)
    \/ \E i \in 1..Len(runner) : ErrorEvent(i)
    \/ Abort
    \/ \E i \in 1..Len(runner) : KillTimer(i)

Spec == Init /\ [][Next]_vars

\* One single-mode invocation of a resolvable model, with a longer stream.
InitRunner ==
    /\ registry = TheRegistry
    /\ settings = TheSettings
    /\ params = [model |-> Str(GoodToken), task |-> Str(<<"t">>), tasks |-> NoTasks]
    /\ budget \in BudgetsFor(1)
    /\ stream = NoStream
    /\ InitCommon

SpecRunner == InitRunner /\ [][Next]_vars

(***************************************************************************)
(* The model resolver on its own: one probe of getAvailableModels and      *)
(* resolveModel per registry, settings file and token                      *)
(***************************************************************************)
ModelPool ==
    { [provider |-> <<"A">>, id |-> <<"b">>],
      [provider |-> <<"a">>, id |-> <<"B">>],
      [provider |-> <<"a">>, id |-> <<"b", "b">>],
      [provider |-> <<"b">>, id |-> <<"b">>] }

AllowPool ==
    { <<"A", "/", "B">>, <<"a", "/", "b", "b">>, <<"a", "/">>, <<"b">> }

Tokens ==
    { <<>>, <<"a">>, <<"b">>, <<"/">>, <<"a", "/">>, <<"/", "b">>, <<"a", "b">>,
      <<"a", "/", "b">>, <<"A", "/", "B">>, <<"a", "/", "B">>, <<"A", "/", "b">>,
      <<"a", "/", "b", "b">>, <<"A", "/", "B", "b">>, <<"b", "/", "b">>,
      <<"B", "/", "b">>, <<"a", "/", "b", "/">>, <<"/", "a", "/", "b">> }

SeqsUpTo(S, n) == UNION {[1..k -> S] : k \in 0..n}

SettingsFiles ==
    { [kind |-> "unreadable", hasKey |-> FALSE, list |-> <<>>],
      [kind |-> "unparsable", hasKey |-> FALSE, list |-> <<>>],
      [kind |-> "ok", hasKey |-> FALSE, list |-> <<>>] }
    \cup {[kind |-> "ok", hasKey |-> TRUE, list |-> l] : l \in SeqsUpTo(AllowPool, MaxAllow)}

InitResolve ==
    /\ registry \in SeqsUpTo(ModelPool, MaxRegistry)
    /\ settings \in SettingsFiles
    /\ lookup \in [token : Tokens, done : {FALSE}, models : {<<>>}, out : {Null}]
    /\ params = [model |-> Undef, task |-> Undef, tasks |-> NoTasks]
    /\ budget = Quiet
    /\ models = <<>>
    /\ pc = "start"
    /\ ret = NoRet
    /\ nextIndex = 0
    /\ workers = <<>>
    /\ runner = <<>>
    /\ allResults = <<>>
    /\ aborted = FALSE
    /\ spawned = 0
    /\ updates = 0
    /\ dispatched = <<>>
    /\ snapshot = NoSnapshot
    /\ stream = NoStream
    /\ tally = NoTally
    /\ compact = NoCompact

\* const models = getAvailableModels(ctx); resolveModel(token)
Probe ==
    /\ ~lookup.done
    /\ LET map == getAvailableModels(registry, settings) IN
       lookup' = [lookup EXCEPT !.done = TRUE, !.models = map,
                                !.out = resolveModel(map, lookup.token)]
    /\ UNCHANGED <<registry, settings, params, budget, models, pc, ret, nextIndex,
                   workers, runner, allResults, aborted, spawned, updates, dispatched,
                   snapshot, stream, tally, compact>>

NextResolve == Probe

SpecResolve == InitResolve /\ [][NextResolve]_vars

(***************************************************************************)
(* Properties of the parallel scheduler                                    *)
(***************************************************************************)
Fleet == params.tasks.list

InFlight == {i \in 1..Len(runner) : runner[i].st = "pending"}

FleetReturned == pc = "returned" /\ ret.kind = "parallel"

\* C1: in a parallel run every task index is claimed and handed to the
\* runner at most once, the claimed indices are exactly the first nextIndex
\* ones (none is skipped), no two workers hold the same index, and when the
\* fleet's result is returned every index has been handed over exactly once.
C1_EachIndexOnce ==
    Len(workers) > 0 =>
        /\ \A i \in 1..Len(Fleet) :
              /\ dispatched[i] <= 1
              /\ dispatched[i] = 1 <=> i <= nextIndex
              /\ dispatched[i] = 1 <=> runner[i].st # "none"
        /\ \A k1, k2 \in 1..Len(workers) :
              (/\ k1 # k2
               /\ workers[k1].st = "awaiting"
               /\ workers[k2].st = "awaiting") => workers[k1].index # workers[k2].index
        /\ spawned = nextIndex
        /\ FleetReturned => \A i \in 1..Len(Fleet) : dispatched[i] = 1

C1_Witness ==
    /\ FleetReturned
    /\ Len(Fleet) = MAX_PARALLEL
    /\ \A i \in 1..Len(Fleet) : dispatched[i] = 1

\* C2: a parallel run has min(MAX_CONCURRENCY, number of tasks) workers and
\* never more than MAX_CONCURRENCY tasks in flight, neither at the start nor
\* after a finished task is replaced by the next one.
C2_AtMostFourInFlight ==
    /\ Cardinality(InFlight) <= MAX_CONCURRENCY
    /\ Len(workers) > 0 => Len(workers) = Min(MAX_CONCURRENCY, Len(Fleet))
    /\ Cardinality({k \in 1..Len(workers) : workers[k].st = "awaiting"}) <= MAX_CONCURRENCY

C2_Witness ==
    /\ Len(Fleet) = MAX_PARALLEL
    /\ Cardinality(InFlight) = MAX_CONCURRENCY
    /\ nextIndex > MAX_CONCURRENCY

\* C3: the parallel call returns its result only when no task is in flight:
\* every task's runner has resolved.
C3_ReturnsAfterAllResolved ==
    FleetReturned =>
        /\ InFlight = {}
        /\ \A i \in 1..Len(Fleet) : runner[i].st = "resolved"

C3_Witness ==
    /\ FleetReturned
    /\ Len(Fleet) > MAX_CONCURRENCY
    /\ updates > Len(Fleet)

\* C4: a request with more than MAX_PARALLEL tasks is answered with an
\* error result before any subprocess is spawned: no task runs, no result
\* slot is created and no progress update is sent.
C4_TooManyRunsNothing ==
    (params.tasks.def /\ Len(Fleet) > MAX_PARALLEL /\ pc # "start") =>
        /\ pc = "returned"
        /\ ret.kind = "too_many"
        /\ ret.isError
        /\ spawned = 0
        /\ runner = <<>>
        /\ allResults = <<>>
        /\ updates = 0

C4_Witness ==
    /\ Len(Fleet) = MAX_PARALLEL + 1
    /\ pc = "returned"
    /\ ret.isError
    /\ spawned = 0

(***************************************************************************)
(* Properties of request validation                                        *)
(***************************************************************************)
\* The request carries a model with a task; it carries a non-empty fleet.
SuppliesSingle == Truthy(params.model) /\ Truthy(params.task)

SuppliesFleet == params.tasks.def /\ Len(Fleet) > 0

\* execute returned one of its validation errors and started nothing.
ValidationErrorReturned ==
    /\ pc = "returned"
    /\ ret.kind \in {"shape", "too_many", "unknown_model"}
    /\ ret.isError
    /\ spawned = 0
    /\ runner = <<>>

\* C5: a request that supplies both a single model+task pair and a
\* non-empty tasks list is answered at once with a validation error, the
\* error flag set, and nothing is spawned.
C5_BothShapesRejected ==
    (SuppliesSingle /\ SuppliesFleet /\ pc # "start") => ValidationErrorReturned

\* C6: a request that supplies neither a single model+task pair nor a
\* non-empty tasks list (an empty tasks list and a model with a missing or
\* empty task included) is answered at once with a validation error, the
\* error flag set: execute does not throw and nothing is spawned.
C6_NoShapeRejected ==
    (~SuppliesSingle /\ ~SuppliesFleet /\ pc # "start") => ValidationErrorReturned

\* A token resolves when a registry model the allow-list admits has, in
\* lower case, the token's lower-cased text as its provider/id.
Admitted(m) ==
    LET list == IF settings.kind = "ok" /\ settings.hasKey THEN settings.list ELSE <<>> IN
    \/ list = <<>>
    \/ \E j \in 1..Len(list) : toLowerCase(list[j]) = toLowerCase(FullSpec(m))

Resolvable(token) ==
    \E i \in 1..Len(registry) :
        /\ Admitted(registry[i])
        /\ toLowerCase(FullSpec(registry[i])) = toLowerCase(token)

SingleOnly == SuppliesSingle /\ ~SuppliesFleet

FleetOnly == ~SuppliesSingle /\ SuppliesFleet /\ Len(Fleet) <= MAX_PARALLEL

\* C7: a request of one shape that names a model which does not resolve (the
\* single request's model, or the model of any task of a fleet of at most
\* MAX_PARALLEL tasks) is answered with an error result that lists the
\* available models; nothing is spawned, no task of the fleet runs, and no
\* other model is substituted.
C7_UnknownModelRunsNothing ==
    (/\ pc # "start"
     /\ \/ SingleOnly /\ ~Resolvable(params.model.s)
        \/ FleetOnly /\ \E i \in 1..Len(Fleet) : ~Resolvable(Fleet[i].model)) =>
        /\ pc = "returned"
        /\ ret.kind = "unknown_model"
        /\ ret.isError
        /\ ret.listsModels
        /\ ret.available = MapKeys(models)
        /\ spawned = 0
        /\ runner = <<>>
        /\ allResults = <<>>
        /\ updates = 0

C7_Witness ==
    /\ FleetOnly
    /\ Len(Fleet) = 3
    /\ Resolvable(Fleet[1].model)
    /\ ~Resolvable(Fleet[2].model)
    /\ Resolvable(Fleet[3].model)
    /\ pc = "returned"
    /\ ret.kind = "unknown_model"
    /\ spawned = 0

(***************************************************************************)
(* Properties of the subagent runner                                       *)
(***************************************************************************)
\* C10: whatever the subprocess does, the runner's promise never rejects
\* and is resolved with a result: a spawn that fails leaves it resolved or
\* pending on the error event but never rejected, a closed subprocess and a
\* delivered error event leave it resolved, and a failure is recorded in
\* the result's exit code and error message.
C10_RunnerAlwaysResolves ==
    \A i \in 1..Len(runner) :
        /\ runner[i].st # "rejected"
        /\ runner[i].proc = "closed" => runner[i].st = "resolved"
        /\ runner[i].errEv =>
              /\ runner[i].st = "resolved"
              /\ runner[i].result.exitCode # 0
              /\ runner[i].result.errorMessage # <<>>

\* The failing cases of C5, C6 and C10.
C5_Witness ==
    /\ SuppliesSingle
    /\ SuppliesFleet
    /\ Len(Fleet) = 1
    /\ pc # "start"
    /\ spawned > 0

C6_Witness ==
    /\ params.model = Undef
    /\ params.task = Undef
    /\ params.tasks.def
    /\ Fleet = <<>>
    /\ pc = "threw"

C10_Witness ==
    \E i \in 1..Len(runner) :
        /\ runner[i].proc = "closed"
        /\ runner[i].st = "pending"
        /\ runner[i].resolves = 0

(***************************************************************************)
(* Properties of the model resolver                                        *)
(***************************************************************************)
\* C8: a token resolves exactly when some eligible registry model's
\* provider/id equals it regardless of letter case, and then the result is
\* that model's provider/id as the registry spells it; a token that is only
\* a part of an identifier (a substring, a bare id, a prefix) or that has
\* no eligible match resolves to null.
C8_ExactCaseInsensitiveMatch ==
    lookup.done =>
        /\ lookup.out.found <=> Resolvable(lookup.token)
        /\ lookup.out.found =>
              \E i \in 1..Len(registry) :
                  /\ Admitted(registry[i])
                  /\ toLowerCase(FullSpec(registry[i])) = toLowerCase(lookup.token)
                  /\ lookup.out.spec = FullSpec(registry[i])
        /\ ~lookup.out.found => lookup.out = Null

C8_Witness ==
    /\ lookup.done
    /\ lookup.out.found
    /\ lookup.out.spec # lookup.token
    /\ Len(registry) = 2
    /\ \E i \in 1..2 : ~Admitted(registry[i])

\* A proper part of an identifier does not resolve.
C8_PartWitness ==
    /\ lookup.done
    /\ ~lookup.out.found
    /\ lookup.token # <<>>
    /\ \E i \in 1..Len(registry) :
          /\ Admitted(registry[i])
          /\ includes(toLowerCase(FullSpec(registry[i])), toLowerCase(lookup.token))

\* C9: with a non-empty enabledModels list the available models are exactly
\* the registry models whose provider/id equals some entry regardless of
\* letter case; with the list empty or absent, or the settings file
\* unreadable or unparsable, every registry model is available.
C9_AllowListFilter ==
    lookup.done =>
        LET listed == settings.kind = "ok" /\ settings.hasKey /\ settings.list # <<>>
            keys == {lookup.models[j].key : j \in 1..Len(lookup.models)}
            exact(m) == \E j \in 1..Len(settings.list) :
                            toLowerCase(settings.list[j]) = toLowerCase(FullSpec(m))
        IN  /\ listed =>
                 keys = {toLowerCase(FullSpec(registry[i])) :
                            i \in {k \in 1..Len(registry) : exact(registry[k])}}
            /\ ~listed =>
                 keys = {toLowerCase(FullSpec(registry[i])) : i \in 1..Len(registry)}
            /\ \A j \in 1..Len(lookup.models) :
                 \E i \in 1..Len(registry) :
                     /\ lookup.models[j].provider = registry[i].provider
                     /\ lookup.models[j].id = registry[i].id
                     /\ lookup.models[j].key = toLowerCase(FullSpec(registry[i]))

C9_Witness ==
    /\ lookup.done
    /\ settings.hasKey
    /\ Len(settings.list) = 2
    /\ Len(registry) = 2
    /\ Len(lookup.models) = 1
    /\ \E j \in 1..2 : /\ settings.list[j] # FullSpec(lookup.models[1])
                       /\ toLowerCase(settings.list[j]) = lookup.models[1].key

C9_UnreadableWitness ==
    /\ lookup.done
    /\ settings.kind \in {"unreadable", "unparsable"}
    /\ Len(registry) = 2
    /\ Len(lookup.models) = 2

(***************************************************************************)
(* Properties of cancellation                                              *)
(***************************************************************************)
IsAborted(res) ==
    /\ res.stopReason = "aborted"
    /\ res.errorMessage = <<"Aborted by user">>

\* C11 as stated: a runner whose signal was aborted before its subprocess
\* closed ends with stopReason "aborted" and errorMessage "Aborted by user":
\* at the close of a subprocess whose runner ran kill, the resolved
\* runner's result carries both.
C11_AbortedBeforeClose ==
    [][\A i \in 1..Len(runner) :
          (/\ i <= Len(runner')
           /\ runner[i].proc \in {"running", "failed"}
           /\ runner[i].wasAborted
           /\ runner'[i].proc = "closed"
           /\ runner'[i].st = "resolved") => IsAborted(runner'[i].result)]_vars

\* C11, amended: a runner launched under an aborted signal, or pending when
\* the signal is aborted, has run kill; and a runner that has run kill when
\* it resolves resolves with stopReason "aborted" and errorMessage "Aborted
\* by user", whatever the stream, stderr or the spawn error had put in the
\* result. This holds for every pending runner of a fleet.
C11_AbortedBeforeResolve ==
    [][\A i \in 1..Len(runner') :
          LET old == IF i <= Len(runner) THEN runner[i] ELSE Idle
              new == runner'[i]
          IN  /\ (old.st = "none" /\ new.st = "pending" /\ aborted) => new.wasAborted
              /\ (old.st = "pending" /\ ~aborted /\ aborted') => new.wasAborted
              /\ (old.st = "pending" /\ new.st = "resolved" /\ old.wasAborted)
                    => IsAborted(new.result)
              /\ (old.st = "pending" /\ new.st = "resolved" /\ ~old.wasAborted)
                    => new.result.stopReason # "aborted"]_vars

C11_Witness ==
    /\ Len(runner) >= 2
    /\ aborted
    /\ \A i \in 1..Len(runner) :
          /\ runner[i].st = "resolved"
          /\ IsAborted(runner[i].result)
    /\ \E i \in 1..Len(runner) : runner[i].sigs = <<"SIGTERM">>

\* C12: on cancellation SIGTERM is sent to the running subprocess at once,
\* and when the 3000 ms timer of a runner has fired while its subprocess
\* still runs, SIGKILL has been sent to it.
C12_KillEscalates ==
    \A i \in 1..Len(runner) :
        (runner[i].wasAborted /\ runner[i].proc = "running") =>
            /\ runner[i].sigs # <<>>
            /\ runner[i].sigs[1] = "SIGTERM"
            /\ ~runner[i].timer => \E j \in 1..Len(runner[i].sigs) :
                                       runner[i].sigs[j] = "SIGKILL"

C12_Witness ==
    \E i \in 1..Len(runner) :
        /\ runner[i].wasAborted
        /\ runner[i].proc = "running"
        /\ ~runner[i].timer
        /\ runner[i].sigs = <<"SIGTERM">>

(***************************************************************************)
(* Properties of a fleet's outcome                                         *)
(***************************************************************************)
\* C13: a task of a fleet that fails (a non-zero exit, a spawn that fails
\* or throws) leaves the parallel call running: no worker ends with an
\* exception, execute does not throw, and it returns only when no sibling
\* is still in flight, every task having been dispatched.
C13_FailureIsolated ==
    Len(workers) > 0 =>
        /\ pc # "threw"
        /\ \A k \in 1..Len(workers) : workers[k].st # "rejected"
        /\ pc = "returned" =>
              /\ InFlight = {}
              /\ \A i \in 1..Len(Fleet) : dispatched[i] = 1

C13_Witness ==
    /\ Len(workers) > 0
    /\ pc = "threw"
    /\ ret = NoRet
    /\ InFlight # {}
    /\ \E i \in 1..Len(runner) : runner[i].st = "rejected"

\* C14: the result of a parallel call counts as succeeded the tasks whose
\* exit code is 0, reports the fleet's size as the total, and has the error
\* flag set exactly when some task's exit code is not 0.
C14_ErrorIffSomeNonZero ==
    FleetReturned =>
        LET failed == {i \in 1..Len(Fleet) : runner[i].result.exitCode # 0} IN
        /\ ret.total = Len(Fleet)
        /\ ret.successCount = Len(Fleet) - Cardinality(failed)
        /\ ret.isError <=> failed # {}

C14_Witness ==
    /\ FleetReturned
    /\ Len(Fleet) = 3
    /\ ret.successCount = 2
    /\ ret.isError
    /\ runner[2].result.exitCode = 2

(***************************************************************************)
(* Properties of the runner's exit handling                                *)
(***************************************************************************)
\* The error message the stream left in the result: that of the last
\* assistant message that carries one.
StreamMessage(res) ==
    LET said == {j \in 1..Len(res.messages) :
                    /\ res.messages[j].role = "assistant"
                    /\ res.messages[j].errorMessage # <<>>}
    IN  IF said = {} THEN <<>>
        ELSE res.messages[CHOOSE j \in said : \A h \in said : h <= j].errorMessage

\* The subprocess of runner r exited with a code of its own, no abort and
\* no spawn error having interfered.
ExitedPlainly(r) ==
    /\ r.st = "resolved"
    /\ r.proc = "closed"
    /\ ~r.errEv
    /\ ~r.wasAborted
    /\ r.code # <<>>
    /\ r.code[1] # NullCode

\* C16: when the subprocess exits, the result's exit code is the process's
\* exit code; if it is not 0 and the stream set no error message, the
\* message is the trimmed stderr text, or "Exit code N" when that is empty;
\* a message an assistant message set is kept whatever stderr holds.
C16_ExitCodeAndMessage ==
    \A i \in 1..Len(runner) :
        ExitedPlainly(runner[i]) =>
            LET r == runner[i]
                said == StreamMessage(r.result)
            IN  /\ r.result.exitCode = r.code[1]
                /\ r.result.errorMessage =
                      IF said # <<>> THEN said
                      ELSE IF r.code[1] = 0 THEN <<>>
                      ELSE IF trim(r.stderr) # <<>> THEN trim(r.stderr)
                      ELSE <<"Exit code ", CodeStr(r.code[1])>>

C16_Witness ==
    /\ Len(runner) = 1
    /\ ExitedPlainly(runner[1])
    /\ runner[1].result.exitCode = 2
    /\ trim(runner[1].stderr) # <<>>
    /\ StreamMessage(runner[1].result) # <<>>
    /\ runner[1].result.errorMessage = StreamMessage(runner[1].result)

\* The same exit with nothing from the stream: the message is stderr's text.
C16_StderrWitness ==
    /\ Len(runner) = 1
    /\ ExitedPlainly(runner[1])
    /\ runner[1].result.exitCode = 2
    /\ runner[1].result.errorMessage = <<"e">>

\* C17: a subprocess that cannot be spawned gives a result, never an
\* exception: the runner is not rejected, and once the error event is
\* delivered (no abort having come first) it is resolved with exit code 1
\* and the spawn error's description, before and after the close event.
C17_SpawnFailureIsResult ==
    \A i \in 1..Len(runner) :
        /\ runner[i].st # "rejected"
        /\ (runner[i].errEv /\ ~runner[i].wasAborted) =>
              /\ runner[i].st = "resolved"
              /\ runner[i].result.exitCode = 1
              /\ runner[i].result.errorMessage = <<"spawn ENOENT">>

\* The part of C17 about the error event alone.
C17_ErrorEventIsResult ==
    \A i \in 1..Len(runner) :
        (runner[i].errEv /\ ~runner[i].wasAborted) =>
            /\ runner[i].st = "resolved"
            /\ runner[i].result.exitCode = 1
            /\ runner[i].result.errorMessage = <<"spawn ENOENT">>

C17_Witness ==
    /\ Len(runner) = 1
    /\ runner[1].st = "rejected"
    /\ runner[1].proc = "none"
    /\ pc = "threw"

(***************************************************************************)
(* Properties of the progress updates                                      *)
(***************************************************************************)
\* C18: in the last update a parallel call delivered, every task whose
\* runner had not finished and whose subprocess had not exited shows exit
\* code -1, and the done count of its text counts every finished task and
\* no task that was still running.
C18_RunningShowsMinusOne ==
    (Len(workers) > 0 /\ snapshot.held # <<>>) =>
        /\ \A j \in 1..Len(snapshot.held) :
              j \notin (snapshot.finished \cup snapshot.exited)
                  => snapshot.seen[j].exitCode = -1
        /\ snapshot.done >= Cardinality(snapshot.finished)
        /\ snapshot.done <= Cardinality(snapshot.finished \cup snapshot.exited)

C18_Witness ==
    /\ Len(workers) > 0
    /\ Len(snapshot.held) = 2
    /\ snapshot.finished = {}
    /\ snapshot.exited = {}
    /\ snapshot.done = 1
    /\ \E j \in 1..2 : snapshot.seen[j].exitCode = 0 /\ runner[j].proc = "running"

\* What the caller reads now in the update it was last handed.
Held(j) == Deref(snapshot.held, runner, Fleet, models, j)

\* C19: the results of an update the caller holds keep the values they had
\* when it was delivered, whatever the runners do afterwards.
C19_SnapshotKeepsItsValues ==
    \A j \in 1..Len(snapshot.held) : Held(j) = snapshot.seen[j]

C19_Witness ==
    \E j \in 1..Len(snapshot.held) :
        /\ snapshot.held[j] = "live"
        /\ Len(snapshot.seen[j].messages) = 1
        /\ snapshot.seen[j].exitCode = 0
        /\ snapshot.seen[j].errorMessage = <<>>
        /\ Held(j).exitCode = 2
        /\ Held(j).errorMessage # <<>>

(***************************************************************************)
(* One stdout stream delivered in chunks of every size                     *)
(***************************************************************************)
MaxLines == 2

\* The lines a subprocess writes, as bytes: the events of assistant
\* messages (with a full usage object, with some of its fields, with none,
\* with a two-byte character in the text, with a tool call only, with a
\* tool call and two text parts), of a user message that carries
\* a usage object, of a tool result, an event of another type, a
\* message_end without message, the literals null and 7, a blank line and
\* a line that is not JSON.
LinePool ==
    { <<"{", "a", "}">>, <<"{", "c", "C3", "A9", "}">>, <<"n">>, <<" ">>, <<"x">>,
      <<"{", "h", "}">>, <<"{", "b", "}">>, <<"{", "v", "}">>, <<"{", "t", "}">>,
      <<"{", "d", "}">>, <<"{", "o", "}">>, <<"{", "m", "}">>, <<"7">> }

RECURSIVE Joined(_)
Joined(lines) ==
    IF Len(lines) = 0 THEN <<>> ELSE Head(lines) \o <<"\n">> \o Joined(Tail(lines))

\* Every stream of 1..MaxLines lines, the last one with or without its newline.
Streams ==
    LET texts == {Joined(ls) : ls \in SeqsUpTo(LinePool, MaxLines) \ {<<>>}}
    IN  texts \cup {SubSeq(t, 1, Len(t) - 1) : t \in texts}

InitStream ==
    /\ registry = TheRegistry
    /\ settings = TheSettings
    /\ params = [model |-> Str(GoodToken), task |-> Str(<<"t">>), tasks |-> NoTasks]
    /\ budget = Quiet
    /\ stream \in [bytes : Streams, pos : {0}]
    /\ InitCommon

\* The next data event of the stream's stdout: a chunk of any length.
FeedChunk(k) ==
    /\ pc # "crashed"
    /\ Len(runner) = 1
    /\ runner[1].proc = "running"
    /\ stream.pos + k <= Len(stream.bytes)
    /\ stream' = [stream EXCEPT !.pos = @ + k]
    /\ Handled(1, DataHandler(runner[1], SubSeq(stream.bytes, stream.pos + 1, stream.pos + k)),
               "ok", budget)
    /\ UNCHANGED <<registry, settings, params, lookup, models, aborted, tally, compact>>

\* The subprocess exits once it has written the whole stream.
EndStream ==
    /\ Len(runner) = 1
    /\ stream.pos = Len(stream.bytes)
    /\ Close(1, 0)

NextStream ==
    \/ Execute
    \/ \E k \in 1..Len(stream.bytes) : FeedChunk(k)
    \/ EndStream

SpecStream == InitStream /\ [][NextStream]_vars

\* The same stream handled one whole line at a time: each line decoded as a
\* whole and given to processLine, a last line without newline included.
RECURSIVE EachLine(_, _)
EachLine(res, lines) ==
    IF Len(lines) = 0 THEN res
    ELSE EachLine(processLine(res, Head(lines)).res, Tail(lines))

WholeLines(bytes) ==
    EachLine(NewResult(<<"A", "/", "b">>, <<"t">>), split(toString(bytes), <<>>, <<>>))

SameParse(a, b) ==
    /\ a.messages = b.messages
    /\ a.output = b.output
    /\ a.usage = b.usage
    /\ a.stopReason = b.stopReason
    /\ a.errorMessage = b.errorMessage

StreamEnded ==
    /\ Len(runner) = 1
    /\ runner[1].proc = "closed"
    /\ pc # "crashed"

\* The stream holds events, blank lines and lines that are not JSON, but no
\* literal null (on which processLine throws).
NoNullLine == \A j \in 1..Len(stream.bytes) : stream.bytes[j] # "n"

\* C15: however a stream of events is cut into chunks (in the middle of a
\* line, around an empty line, with a last line that has no newline), once
\* the subprocess has closed the result (messages, output, usage,
\* stopReason, errorMessage) is the one that handling the same stream one
\* whole line at a time gives.
C15_ChunkingDoesNotMatter ==
    (StreamEnded /\ NoNullLine) => SameParse(runner[1].result, WholeLines(stream.bytes))

\* A two-byte character cut across two chunks reached the result as two
\* replacement characters.
C15_Witness ==
    /\ StreamEnded
    /\ runner[1].st = "resolved"
    /\ runner[1].result.output = <<Replacement, Replacement>>
    /\ WholeLines(stream.bytes).output = <<"U+00E9">>

\* Streams of one-byte characters are handled alike however they are cut.
PlainStream ==
    NoNullLine /\ \A j \in 1..Len(stream.bytes) : stream.bytes[j] \notin {"C3", "A9"}

C15_PlainChunkingDoesNotMatter ==
    (StreamEnded /\ PlainStream) => SameParse(runner[1].result, WholeLines(stream.bytes))

(***************************************************************************)
(* aggregateUsage on its own                                               *)
(***************************************************************************)
MaxResults == 3

\* total.input += r.usage.input; ... total.turns += r.usage.turns
addUsageLastTurns(total, r) ==
    [input |-> total.input + r.usage.input,
     output |-> total.output + r.usage.output,
     cacheRead |-> total.cacheRead + r.usage.cacheRead,
     cacheWrite |-> total.cacheWrite + r.usage.cacheWrite,
     cost |-> total.cost + r.usage.cost,
     turns |-> r.usage.turns]

addUsage(total, r) ==
    [input |-> total.input + r.usage.input,
     output |-> total.output + r.usage.output,
     cacheRead |-> total.cacheRead + r.usage.cacheRead,
     cacheWrite |-> total.cacheWrite + r.usage.cacheWrite,
     cost |-> total.cost + r.usage.cost,
     turns |-> total.turns + r.usage.turns]

\* for (const r of results) { ... }
RECURSIVE sumUsage(_, _)
sumUsage(total, results) ==
    IF Len(results) = 0 THEN total
    ELSE sumUsage(addUsage(total, Head(results)), Tail(results))

aggregateUsage(results) == sumUsage(NoUsage, results)

\* Results with whole-number usage fields.
UsagePool ==
    { [usage |-> NoUsage],
      [usage |-> [input |-> 2, output |-> 1, cacheRead |-> 0, cacheWrite |-> 0,
                  cost |-> 1, turns |-> 1]],
      [usage |-> [input |-> 5, output |-> 3, cacheRead |-> 7, cacheWrite |-> 2,
                  cost |-> 4, turns |-> 2]],
      [usage |-> [input |-> 1000000, output |-> 0, cacheRead |-> 9, cacheWrite |-> 1,
                  cost |-> 0, turns |-> 3]] }

InitUsage ==
    /\ registry = TheRegistry
    /\ settings = TheSettings
    /\ params = [model |-> Undef, task |-> Undef, tasks |-> NoTasks]
    /\ budget = Quiet
    /\ stream = NoStream
    /\ lookup = NoLookup
    /\ models = <<>>
    /\ pc = "start"
    /\ ret = NoRet
    /\ nextIndex = 0
    /\ workers = <<>>
    /\ runner = <<>>
    /\ allResults = <<>>
    /\ aborted = FALSE
    /\ spawned = 0
    /\ updates = 0
    /\ dispatched = <<>>
    /\ snapshot = NoSnapshot
    /\ tally \in [results : SeqsUpTo(UsagePool, MaxResults), done : {FALSE}, total : {NoUsage}]
    /\ compact = NoCompact

\* renderResult computes aggregateUsage(details.results)
Aggregate ==
    /\ ~tally.done
    /\ tally' = [tally EXCEPT !.done = TRUE, !.total = aggregateUsage(tally.results)]
    /\ UNCHANGED <<registry, settings, params, budget, lookup, models, pc, ret, nextIndex,
                   workers, runner, allResults, aborted, spawned, updates, dispatched,
                   snapshot, stream, compact>>

NextUsage == Aggregate

SpecUsage == InitUsage /\ [][NextUsage]_vars

Orders(n) == {f \in [1..n -> 1..n] : \A i, j \in 1..n : f[i] = f[j] => i = j}

PlusUsage(a, b) ==
    [input |-> a.input + b.input, output |-> a.output + b.output,
     cacheRead |-> a.cacheRead + b.cacheRead, cacheWrite |-> a.cacheWrite + b.cacheWrite,
     cost |-> a.cost + b.cost, turns |-> a.turns + b.turns]

\* C20: the totals aggregateUsage gives for a list of results are the same
\* for every order of the list, and the totals of a list are the field-wise
\* sum of the totals of any two parts it is the concatenation of.
C20_UsageOrderIndependent ==
    tally.done =>
        LET rs == tally.results
            n == Len(rs)
        IN  /\ \A f \in Orders(n) :
                  aggregateUsage([i \in 1..n |-> rs[f[i]]]) = tally.total
            /\ \A k \in 0..n :
                  tally.total = PlusUsage(aggregateUsage(SubSeq(rs, 1, k)),
                                          aggregateUsage(SubSeq(rs, k + 1, n)))

C20_Witness ==
    /\ tally.done
    /\ Len(tally.results) = 3
    /\ tally.results[1] # tally.results[2]
    /\ tally.results[2] # tally.results[3]
    /\ tally.results[1] # tally.results[3]
    /\ tally.total.turns = 6
    /\ tally.total.input = 1000007

(***************************************************************************)
(* taskman-compaction.ts: the session_before_compact handler, in its agent *)
(* loop form and in its earlier single-prompt form                         *)
(***************************************************************************)
maxTurns == 10

\* The tools of the agent loop: createReadTool, createWriteTool, createEditTool.
ToolNames == {"read", "write", "edit"}

ToolCall(name) == [type |-> "toolCall", name |-> name, text |-> <<>>]

Text(x) == [type |-> "text", name |-> "", text |-> x]

\* What complete() can resolve with: the content of the response.
Responses ==
    { <<Text(<<"s">>)>>, <<Text(<<" ">>)>>, <<>>, <<Text(<<" ">>), Text(<<" ">>)>>,
      <<ToolCall("read")>>, <<ToolCall("bogus")>>,
      <<Text(<<"s">>), ToolCall("write"), ToolCall("bogus"), ToolCall("edit")>> }

\* response.content.filter((c) => c.type === "toolCall")
toolCalls(content) == SelectSeq(content, LAMBDA c : c.type = "toolCall")

\* response.content.filter((c) => c.type === "text").map((c) => c.text).join("\n")
RECURSIVE join(_)
join(texts) ==
    IF Len(texts) = 0 THEN <<>>
    ELSE IF Len(texts) = 1 THEN texts[1].text
    ELSE texts[1].text \o <<"\n">> \o join(Tail(texts))

textOf(content) == join(SelectSeq(content, LAMBDA c : c.type = "text"))

\* fs.existsSync(HANDOFF_SKILL_PATH)
checkTaskmanAvailableAlways(skill) == TRUE

checkTaskmanAvailable(skill) == skill # "missing"

\* readSkillFile() of the earlier form, as its caller tests it: the content
\* is falsy when the file is missing and when it is empty.
readSkillFile(skill) == skill = "present"

\* ctx.ui.notify(message, level)
notify(c, level) == [c EXCEPT !.notes = Append(@, level)]

\* return;
returnDefault(c) == [c EXCEPT !.pc = "returned", !.out = "default"]

\* return { compaction: { summary, firstKeptEntryId, tokensBefore } }
returnCompaction(c) == [c EXCEPT !.pc = "returned", !.out = "compaction"]

\* catch (error) { if (signal.aborted) return; notify(..., "error"); return }
caughtAlwaysReports(c) == returnDefault(notify(c, "error"))

caught(c) == IF c.aborted THEN returnDefault(c) ELSE returnDefault(notify(c, "error"))

\* After the loop: if (!summary.trim()) { notify(..., "warning"); return }
afterLoop(c) ==
    IF Len(trim(c.summary)) = 0 THEN returnDefault(notify(c, "warning"))
    ELSE returnCompaction(c)

\* The head of one iteration of for (let turn = 0; turn < maxTurns; turn++),
\* up to its await of complete().
loopTurnOneMore(c) ==
    IF c.turn <= maxTurns
    THEN IF c.aborted THEN caught(c)
         ELSE [c EXCEPT !.pc = "complete", !.calls = @ + 1]
    ELSE afterLoop(c)

loopTurn(c) ==
    IF c.turn < maxTurns
    THEN IF c.aborted THEN caught(c)
         ELSE [c EXCEPT !.pc = "complete", !.calls = @ + 1]
    ELSE afterLoop(c)

\* The handler up to its first await.
beforeCompact(c) ==
    IF ~checkTaskmanAvailable(c.skill) THEN returnDefault(notify(c, "warning"))
    ELSE [c EXCEPT !.pc = "key"]

\* getApiKey settled (outside the try block): "key", "none" (undefined,
\* passed on as it is) or "reject".
afterKey(c, outcome) ==
    IF outcome = "reject" THEN [c EXCEPT !.pc = "threw"]
    ELSE loopTurn(notify(c, "info"))

\* complete() resolved with `content`. Every tool call of a known tool
\* starts its execute at once; with none to wait for, the loop goes on in
\* the same turn of the event loop.
afterComplete(c, content) ==
    LET calls == toolCalls(content)
        known == SelectSeq(calls, LAMBDA tc : tc.name \in ToolNames)
    IN  IF Len(calls) = 0 THEN afterLoop([c EXCEPT !.summary = textOf(content)])
        ELSE IF Len(known) = 0 THEN loopTurn([c EXCEPT !.turn = @ + 1])
        ELSE [c EXCEPT !.pc = "tools", !.execs = @ + Len(known)]

\* Promise.all of the tool executions settled.
afterTools(c, ok) == IF ok THEN loopTurn([c EXCEPT !.turn = @ + 1]) ELSE caught(c)

\* The earlier form of the handler (no tools, one completion call).
earlierBeforeCompact(c) ==
    IF ~readSkillFile(c.skill) THEN returnDefault(notify(c, "warning"))
    ELSE [c EXCEPT !.pc = "key"]

earlierAfterKey(c, outcome) ==
    IF outcome = "reject" THEN [c EXCEPT !.pc = "threw"]
    ELSE IF outcome = "none" THEN returnDefault(notify(c, "warning"))
    ELSE [notify(c, "info") EXCEPT !.pc = "complete", !.calls = @ + 1]

earlierAfterComplete(c, content) ==
    LET c1 == [c EXCEPT !.summary = textOf(content)] IN
    IF Len(trim(c1.summary)) = 0
    THEN returnDefault(IF ~c.aborted THEN notify(c1, "warning") ELSE c1)
    ELSE returnCompaction(c1)

CompactFrame ==
    UNCHANGED <<registry, settings, params, budget, lookup, models, pc, ret, nextIndex,
                workers, runner, allResults, aborted, spawned, updates, dispatched,
                snapshot, stream, tally>>

\* pi emits session_before_compact.
BeforeCompact ==
    /\ compact.pc = "new"
    /\ compact' = IF compact.variant = "agent" THEN beforeCompact(compact)
                  ELSE earlierBeforeCompact(compact)
    /\ CompactFrame

\* ctx.modelRegistry.getApiKey(model) settles.
ApiKey(outcome) ==
    /\ compact.pc = "key"
    /\ compact' = IF compact.variant = "agent" THEN afterKey(compact, outcome)
                  ELSE earlierAfterKey(compact, outcome)
    /\ CompactFrame

\* complete() resolves.
Completion(content) ==
    /\ compact.pc = "complete"
    /\ compact' = IF compact.variant = "agent" THEN afterComplete(compact, content)
                  ELSE earlierAfterComplete(compact, content)
    /\ CompactFrame

\* complete() rejects.
CompletionFails ==
    /\ compact.pc = "complete"
    /\ compact' = caught(compact)
    /\ CompactFrame

\* The tool executions of one turn settle.
ToolsDone(ok) ==
    /\ compact.pc = "tools"
    /\ compact' = afterTools(compact, ok)
    /\ CompactFrame

\* The compaction is cancelled.
AbortCompact ==
    /\ compact.pc \in {"new", "key", "complete", "tools"}
    /\ ~compact.aborted
    /\ compact' = [compact EXCEPT !.aborted = TRUE]
    /\ CompactFrame

InitCompact ==
    /\ registry = TheRegistry
    /\ settings = TheSettings
    /\ params = [model |-> Undef, task |-> Undef, tasks |-> NoTasks]
    /\ budget = Quiet
    /\ stream = NoStream
    /\ lookup = NoLookup
    /\ models = <<>>
    /\ pc = "start"
    /\ ret = NoRet
    /\ nextIndex = 0
    /\ workers = <<>>
    /\ runner = <<>>
    /\ allResults = <<>>
    /\ aborted = FALSE
    /\ spawned = 0
    /\ updates = 0
    /\ dispatched = <<>>
    /\ snapshot = NoSnapshot
    /\ tally = NoTally
    /\ compact \in {[NoCompact EXCEPT !.pc = "new", !.variant = v, !.skill = k] :
                        v \in {"agent", "prompt"}, k \in {"missing", "empty", "present"}}

NextCompact ==
    \/ BeforeCompact
    \/ \E outcome \in {"key", "none", "reject"} : ApiKey(outcome)
    \/ \E content \in Responses : Completion(content)
    \/ CompletionFails
    \/ \E ok \in BOOLEAN : ToolsDone(ok)
    \/ AbortCompact

SpecCompact == InitCompact /\ [][NextCompact]_vars

\* C22: when the handoff skill file is not installed the handler, once it
\* has run, has returned no compaction result (default compaction), no
\* completion call was made and no read, write or edit tool was executed.
C22_NoSkillFallsBack ==
    compact.skill = "missing" =>
        /\ compact.pc \in {"new", "returned"}
        /\ compact.pc = "returned" => compact.out = "default"
        /\ compact.calls = 0
        /\ compact.execs = 0

C22_Witness ==
    /\ compact.skill = "missing"
    /\ compact.variant = "agent"
    /\ compact.pc = "returned"
    /\ compact.out = "default"
    /\ compact.notes = <<"warning">>

\* The same in the handler's earlier form.
C22_EarlierWitness ==
    /\ compact.skill = "missing"
    /\ compact.variant = "prompt"
    /\ compact.pc = "returned"
    /\ compact.out = "default"

(***************************************************************************)
(* Properties of the single-mode result                                    *)
(***************************************************************************)
SingleReturned == Len(workers) = 0 /\ pc = "returned" /\ ret.kind = "single"

\* C21: a single-mode call returns with the error flag clear exactly when
\* the result it returns has exit code 0 and a stopReason that is neither
\* "error" nor "aborted"; and a stream of one assistant message_end with
\* text "hi there", usage input 10 and output 2, followed by exit code 0
\* (no cancellation) returns exitCode 0, output "hi there", turns 1, input
\* 10, output 2 and a clear error flag.
C21_SingleErrorFlag ==
    SingleReturned =>
        LET res == ret.details[1] IN
        /\ ~ret.isError <=> (res.exitCode = 0 /\ res.stopReason \notin {"error", "aborted"})
        /\ (/\ res.messages = <<EventOf("h").message>>
            /\ runner[1].code = <<0>>
            /\ ~runner[1].wasAborted)
              => /\ res.exitCode = 0
                 /\ res.output = HiThere
                 /\ res.usage = [NoUsage EXCEPT !.turns = 1, !.input = 10, !.output = 2]
                 /\ ~ret.isError

C21_Witness ==
    /\ SingleReturned
    /\ ret.details[1].messages = <<EventOf("h").message>>
    /\ ret.details[1].output = HiThere
    /\ ret.details[1].usage.input = 10
    /\ runner[1].code = <<0>>
    /\ ~ret.isError

\* A call that exits with code 0 after the stream reported stopReason
\* "error" returns with the error flag set.
C21_StopReasonWitness ==
    /\ SingleReturned
    /\ ret.details[1].exitCode = 0
    /\ ret.details[1].stopReason = "error"
    /\ ret.isError

(***************************************************************************)
(* Properties of the exit code of a terminal result                        *)
(***************************************************************************)
\* C23: a resolved runner's result has exit code 0 only if its subprocess
\* closed with exit code 0, and a subprocess that closed without a numeric
\* code (a signal ended it) gives a positive exit code.
C23_ZeroOnlyOnSuccess ==
    \A i \in 1..Len(runner) :
        runner[i].st = "resolved" =>
            /\ runner[i].result.exitCode = 0 => runner[i].code = <<0>>
            /\ runner[i].code = <<NullCode>> => runner[i].result.exitCode > 0

\* A subprocess ended by a signal nobody in the program sent, reported as a
\* success by a single-mode call.
C23_Witness ==
    /\ SingleReturned
    /\ runner[1].st = "resolved"
    /\ runner[1].code = <<NullCode>>
    /\ runner[1].sigs = <<>>
    /\ runner[1].result.exitCode = 0
    /\ ~ret.isError

\* The same after a cancellation: the subprocess ended by SIGTERM.
C23_AbortedWitness ==
    \E i \in 1..Len(runner) :
        /\ runner[i].st = "resolved"
        /\ runner[i].code = <<NullCode>>
        /\ runner[i].sigs = <<"SIGTERM">>
        /\ runner[i].result.exitCode = 0

\* The tasks of a returned fleet that ended aborted: cancelled, and their
\* subprocess ended by the termination signal.
AbortedAndKilled ==
    {i \in 1..Len(ret.details) :
        /\ IsAborted(ret.details[i])
        /\ runner[i].sigs # <<>>
        /\ runner[i].code = <<NullCode>>}

\* C24: a returned fleet counts none of its aborted tasks as succeeded, and
\* with at least one aborted task its error flag is set.
C24_AbortedNotCounted ==
    FleetReturned =>
        /\ ret.successCount <= ret.total - Cardinality(AbortedAndKilled)
        /\ AbortedAndKilled # {} => ret.isError

\* Every task of a fleet cancelled and killed, the fleet returned as a
\* complete success.
C24_Witness ==
    /\ FleetReturned
    /\ Len(Fleet) >= 2
    /\ AbortedAndKilled = 1..Len(Fleet)
    /\ ret.successCount = ret.total
    /\ ~ret.isError

(***************************************************************************)
(* Liveness under cancellation                                             *)
(***************************************************************************)
\* The close event of a subprocess that has to exit: one whose spawn failed
\* (after its error event), or one SIGKILL was delivered to. A subprocess
\* that was sent SIGTERM only may ignore it and run on.
MustClose(i) ==
    /\ \/ runner[i].proc = "failed"
       \/ \E j \in 1..Len(runner[i].sigs) : runner[i].sigs[j] = "SIGKILL"
    /\ \E code \in {NullCode, ErrnoCode} : Close(i, code)

\* The event loop delivers what is pending: a timer that was set fires, the
\* error event of a failed spawn arrives, and a subprocess that has to exit
\* closes.
Fairness ==
    /\ WF_vars(\E i \in 1..Len(runner) : KillTimer(i))
    /\ WF_vars(\E i \in 1..Len(runner) : ErrorEvent(i))
    /\ WF_vars(\E i \in 1..Len(runner) : MustClose(i))

\* Largest fleet of the cancellation runs (one more than MAX_CONCURRENCY, so
\* that a task is still unclaimed when the signal is raised).
CancelFleet == 5

\* Invocations that can be cancelled: a single request, and fleets of
\* resolvable tasks.
InitCancel ==
    /\ registry = TheRegistry
    /\ settings = TheSettings
    /\ params \in {[model |-> Str(GoodToken), task |-> Str(<<"t">>), tasks |-> NoTasks]}
                  \cup {[model |-> Undef, task |-> Undef,
                         tasks |-> [def |-> TRUE, list |-> [i \in 1..n |-> TaskAt(GoodToken, i)]]] :
                        n \in 1..CancelFleet}
    /\ budget \in {b \in BudgetsFor(Len(params.tasks.list)) : b.abort > 0}
    /\ stream = NoStream
    /\ InitCommon

SpecLive == InitCancel /\ [][Next]_vars /\ Fairness

\* A stream handler of some runner let an exception escape (the line null
\* in its last, unterminated line): the close event passed without resolve.
HandlerThrew ==
    pc = "crashed" \/ \E i \in 1..Len(runner) :
                         runner[i].proc = "closed" /\ runner[i].st = "pending"

\* C25: once the cancellation signal is raised on an invocation that has
\* started, the invocation eventually is over (returned, or ended by an
\* exception) with no runner left in flight, whether or not a subprocess
\* reacts to SIGTERM. Runs in which a stream handler threw are left aside.
C25_CancelTerminates ==
    (aborted /\ pc # "start")
        ~> (HandlerThrew \/ (pc \in {"returned", "threw"} /\ InFlight = {}))

\* Where a cancelled invocation stays for ever: the signal raised, every
\* timer fired, and a subprocess that ignored SIGTERM still running with
\* its runner in flight.
C25_Witness ==
    /\ aborted
    /\ pc = "await"
    /\ InFlight # {}
    /\ \A i \in InFlight :
          /\ runner[i].proc = "running"
          /\ runner[i].sigs = <<"SIGTERM">>
          /\ ~runner[i].timer

(***************************************************************************)
(* Properties of processLine over a whole stream                           *)
(***************************************************************************)
\* The event records of the stream, in the order the subprocess wrote them:
\* the lines that are JSON objects.
RECURSIVE EventsOf(_)
EventsOf(lines) ==
    IF Len(lines) = 0 THEN <<>>
    ELSE LET p == JsonParse(Head(lines)) IN
         (IF Len(trim(Head(lines))) > 0 /\ p.kind = "object" THEN <<p.event>> ELSE <<>>)
             \o EventsOf(Tail(lines))

StreamEvents == EventsOf(split(toString(stream.bytes), <<>>, <<>>))

\* The assistant messages among the message_end events of the stream.
AssistantMessages ==
    LET ends == SelectSeq(StreamEvents,
                          LAMBDA e : /\ e.type = "message_end" /\ e.hasMessage
                                     /\ e.message.role = "assistant")
    IN  [j \in 1..Len(ends) |-> ends[j].message]

RECURSIVE SumOf(_, _)
SumOf(msgs, field) ==
    IF Len(msgs) = 0 THEN 0
    ELSE (IF Head(msgs).hasUsage /\ Head(msgs).usage[field].t = "num"
          THEN Head(msgs).usage[field].n ELSE 0) + SumOf(Tail(msgs), field)

UsageOfStream ==
    [input |-> SumOf(AssistantMessages, "input"),
     output |-> SumOf(AssistantMessages, "output"),
     cacheRead |-> SumOf(AssistantMessages, "cacheRead"),
     cacheWrite |-> SumOf(AssistantMessages, "cacheWrite"),
     cost |-> SumOf(AssistantMessages, "cost"),
     turns |-> Len(AssistantMessages)]

\* C26: once a stream has been processed, turns is the number of its
\* message_end events of assistant messages and each other usage field is
\* the sum of those messages' usage values, a missing usage object or field
\* counting as 0; message_end events of other roles add nothing.
C26_UsageIsSumOverAssistantEnds ==
    StreamEnded => runner[1].result.usage = UsageOfStream

\* The line null before an assistant message_end in one chunk: the handler
\* threw on the first line and the second was never processed.
C26_Witness ==
    /\ StreamEnded
    /\ runner[1].st = "resolved"
    /\ stream.bytes = <<"n", "\n", "{", "h", "}", "\n">>
    /\ runner[1].result.usage = NoUsage
    /\ UsageOfStream.turns = 1
    /\ UsageOfStream.input = 10

\* On streams without the line null the usage is the sum.
C26_UsageIsSumWithoutNull ==
    (StreamEnded /\ NoNullLine) => runner[1].result.usage = UsageOfStream

C26_SumWitness ==
    /\ StreamEnded
    /\ stream.bytes = <<"{", "h", "}", "\n", "{", "v", "}", "\n">>
    /\ runner[1].result.usage = [NoUsage EXCEPT !.turns = 1, !.input = 10, !.output = 2]

\* The texts of the text parts of a message.
TextsIn(m) == {m.content[j].text : j \in {h \in 1..Len(m.content) : m.content[h].type = "text"}}

\* C27 as stated: when the last message of the transcript is an assistant
\* message, output is a text of that message, and is empty when that
\* message has no text: nothing of an earlier turn is retained.
C27_OutputIsThisMessagesText ==
    \A i \in 1..Len(runner) :
        LET ms == runner[i].result.messages IN
        (Len(ms) > 0 /\ ms[Len(ms)].role = "assistant") =>
            IF TextsIn(ms[Len(ms)]) = {} THEN runner[i].result.output = <<>>
            ELSE runner[i].result.output \in TextsIn(ms[Len(ms)])

\* The text the transcript leaves: the first text part of its last
\* assistant message that has a text part, nothing when there is none.
RECURSIVE LatestKnownText(_)
LatestKnownText(ms) ==
    IF Len(ms) = 0 THEN <<>>
    ELSE LET m == ms[Len(ms)]
             at == {j \in 1..Len(m.content) : m.content[j].type = "text"}
         IN  IF m.role = "assistant" /\ at # {}
             THEN m.content[CHOOSE j \in at : \A h \in at : j <= h].text
             ELSE LatestKnownText(SubSeq(ms, 1, Len(ms) - 1))

\* C27, amended: output is always the first text part of the last
\* assistant message of the transcript that has a text part (empty when
\* there is none): a new text replaces it whole, an assistant message
\* without text leaves it as it was.
C27_OutputIsLatestKnownText ==
    \A i \in 1..Len(runner) :
        runner[i].result.output = LatestKnownText(runner[i].result.messages)

\* A turn with text, then a turn with a tool call only: the first turn's
\* text is still the output.
C27_Witness ==
    /\ Len(runner) = 1
    /\ runner[1].result.messages = <<EventOf("a").message, EventOf("b").message>>
    /\ runner[1].result.output = <<"h", "i">>

\* A message with two text parts after another turn: its first text part
\* replaced the output.
C27_ReplacedWitness ==
    /\ Len(runner) = 1
    /\ runner[1].result.messages = <<EventOf("a").message, EventOf("d").message>>
    /\ runner[1].result.output = <<"x">>

\* C28: a step in which a running subprocess's transcript grows by the
\* message of one tool_result_end event, and by nothing else, calls the
\* update callback once and leaves usage (turns included), output,
\* stopReason, errorMessage and exitCode as they were.
C28_ToolResultOnlyAppends ==
    [][\A i \in 1..Len(runner) :
          (/\ i <= Len(runner')
           /\ runner[i].proc = "running"
           /\ runner'[i].proc = "running"
           /\ runner'[i].result.messages =
                  Append(runner[i].result.messages, EventOf("t").message))
          => /\ updates' = updates + 1
             /\ runner'[i].result.usage = runner[i].result.usage
             /\ runner'[i].result.output = runner[i].result.output
             /\ runner'[i].result.stopReason = runner[i].result.stopReason
             /\ runner'[i].result.errorMessage = runner[i].result.errorMessage
             /\ runner'[i].result.exitCode = runner[i].result.exitCode]_vars

\* A tool result after an assistant turn that reported an error.
C28_Witness ==
    /\ Len(runner) = 1
    /\ runner[1].proc = "running"
    /\ runner[1].result.messages = <<EventOf("b").message, EventOf("t").message>>
    /\ runner[1].result.usage.turns = 1
    /\ runner[1].result.stopReason = "error"
    /\ runner[1].result.errorMessage = <<"boom">>
    /\ updates = 2

\* The events of the stream that processLine recognizes: message_end and
\* tool_result_end with a message.
Recognized ==
    SelectSeq(StreamEvents,
              LAMBDA e : e.type \in {"message_end", "tool_result_end"} /\ e.hasMessage)

\* C29: the lines of a stream that are not recognized events (blank, not
\* JSON, a JSON literal, an object of another type, a recognized type
\* without message) are passed over without error: no exception leaves a
\* handler, and once the subprocess has closed the runner has resolved with
\* one message and one update for each recognized event of the stream, the
\* events after such a line included.
C29_UnrecognizedIgnored ==
    /\ pc # "crashed"
    /\ StreamEnded =>
          /\ runner[1].st = "resolved"
          /\ Len(runner[1].result.messages) = Len(Recognized)
          /\ updates = Len(Recognized)

\* The line null made the data handler throw: the host ended.
C29_Witness ==
    /\ pc = "crashed"
    /\ stream.bytes = <<"n", "\n", "{", "a", "}", "\n">>
    /\ runner[1].result.messages = <<>>

\* The host survived the exception: the event after the line null was lost.
C29_LostWitness ==
    /\ StreamEnded
    /\ runner[1].st = "resolved"
    /\ stream.bytes = <<"n", "\n", "{", "a", "}", "\n">>
    /\ runner[1].result.messages = <<>>
    /\ updates = 0

\* Without the literal null every line that is not a recognized event is
\* passed over.
C29_OtherLinesIgnored ==
    NoNullLine => C29_UnrecognizedIgnored

C29_OtherLinesWitness ==
    /\ StreamEnded
    /\ stream.bytes = <<"7", "\n", "{", "a", "}", "\n">>
    /\ Len(runner[1].result.messages) = 1

\* The messages of the recognized events, in the order the subprocess
\* wrote them.
EmittedMessages == [j \in 1..Len(Recognized) |-> Recognized[j].message]

IsPrefix(a, b) == Len(a) <= Len(b) /\ a = SubSeq(b, 1, Len(a))

\* A message without the text of its parts (which the decoding of the
\* chunks may have changed): its fields and the types of its parts.
Shape(m) == [m EXCEPT !.content = [j \in 1..Len(m.content) |-> m.content[j].type]]

Shapes(ms) == [j \in 1..Len(ms) |-> Shape(ms[j])]

\* The transcript and the updates of the stream's task follow the stream.
InStreamOrder ==
    Len(runner) = 1 =>
        /\ IsPrefix(Shapes(runner[1].result.messages), Shapes(EmittedMessages))
        /\ updates = Len(runner[1].result.messages)
        /\ updates > 0 => snapshot.seen[1].messages = runner[1].result.messages
        /\ StreamEnded => Shapes(runner[1].result.messages) = Shapes(EmittedMessages)

\* C30: the transcript of a task is, at every moment, the messages of the
\* first message_end and tool_result_end events of its stream in the order
\* they were written, the update callback has been called once for each of
\* them, the last call showing the transcript as it is, and once the
\* subprocess has closed the transcript holds the messages of all of them
\* (messages are compared by their fields and the types of their parts).
C30_EventsInStreamOrder == InStreamOrder

\* A tool result written after the line null never reached the transcript.
C30_Witness ==
    /\ StreamEnded
    /\ runner[1].st = "resolved"
    /\ stream.bytes = <<"n", "\n", "{", "t", "}", "\n">>
    /\ EmittedMessages = <<EventOf("t").message>>
    /\ runner[1].result.messages = <<>>

\* On streams without the line null the order holds.
C30_InOrderWithoutNull == NoNullLine => InStreamOrder

C30_PlainWitness ==
    /\ StreamEnded
    /\ runner[1].result.messages = <<EventOf("t").message, EventOf("a").message>>
    /\ updates = 2

(***************************************************************************)
(* A result after its runner has resolved                                  *)
(***************************************************************************)
\* C31: once a runner has resolved, no later event changes its result (the
\* close event that follows an error event and an abort raised afterwards
\* included), no update is delivered once every runner has resolved and the
\* call has returned, and what the caller was last handed stays as it is.
C31_ResolvedIsFrozen ==
    [][/\ \A i \in 1..Len(runner) :
             runner[i].st = "resolved"
                 => /\ runner'[i].st = "resolved"
                    /\ runner'[i].result = runner[i].result
       /\ pc = "returned" => (updates' = updates /\ snapshot' = snapshot /\ ret' = ret)]_vars

\* A runner that the error event resolved, after its close event and after
\* the signal was raised on it, in a call that has returned.
C31_Witness ==
    /\ pc = "returned"
    /\ aborted
    /\ \E i \in 1..Len(runner) :
          /\ runner[i].st = "resolved"
          /\ runner[i].errEv
          /\ runner[i].proc = "closed"
          /\ runner[i].wasAborted
          /\ runner[i].result.stopReason # "aborted"
          /\ runner[i].result.errorMessage = <<"spawn ENOENT">>

\* A runner the close event resolved, the signal raised afterwards.
C31_LateAbortWitness ==
    /\ pc = "returned"
    /\ aborted
    /\ \E i \in 1..Len(runner) :
          /\ runner[i].st = "resolved"
          /\ runner[i].proc = "closed"
          /\ ~runner[i].errEv
          /\ runner[i].result.stopReason # "aborted"

(***************************************************************************)
(* The usage of a task over its run                                        *)
(***************************************************************************)
UsageFields == {"input", "output", "cacheRead", "cacheWrite", "cost", "turns"}

NonNegative(u) == \A f \in UsageFields : u[f] >= 0

NotBelow(later, earlier) == \A f \in UsageFields : later[f] >= earlier[f]

\* C32: every field of the usage of a task's result is non-negative, in
\* the result object of its runner, in the object its slot of allResults
\* references and in the update the caller was last handed, and from one
\* step to the next none of them decreases.
C32_UsageNeverDecreases ==
    [][/\ \A i \in 1..Len(runner) :
             /\ NonNegative(runner[i].result.usage)
             /\ NonNegative(runner'[i].result.usage)
             /\ NotBelow(runner'[i].result.usage, runner[i].result.usage)
       /\ \A i \in 1..Len(allResults) :
             /\ NonNegative(Deref(allResults, runner, Fleet, models, i).usage)
             /\ NotBelow(Deref(allResults', runner', Fleet', models', i).usage,
                         Deref(allResults, runner, Fleet, models, i).usage)
       /\ \A j \in 1..Len(snapshot.seen) :
             /\ NonNegative(snapshot.seen[j].usage)
             /\ NotBelow(snapshot'.seen[j].usage, snapshot.seen[j].usage)]_vars

\* The terminal result of a single-mode call after two turns, the second
\* one reporting less than the first.
C32_Witness ==
    /\ Len(workers) = 0
    /\ pc = "returned"
    /\ ret.kind = "single"
    /\ ret.details[1].usage.turns = 2
    /\ ret.details[1].usage.input = 12
    /\ ret.details[1].messages[2].usage.input = Num(2)
    /\ snapshot.seen[1].usage.input = 12

\* A task of a fleet whose slot, first the initial object with no usage,
\* references the runner's result with the usage of a turn, after the
\* runner has resolved.
C32_FleetWitness ==
    /\ Len(allResults) = 2
    /\ \E i \in 1..2 :
          /\ allResults[i] = "live"
          /\ runner[i].st = "resolved"
          /\ runner[i].result.usage.turns = 1
          /\ runner[i].result.usage.input = 10
          /\ snapshot.seen[i].usage.input = 10

(***************************************************************************)
(* The order in which tasks are drawn                                      *)
(***************************************************************************)
\* The tasks handed to runSubagent in the step.
NewlyDispatched ==
    {j \in 1..Len(dispatched') :
        dispatched'[j] > (IF j <= Len(dispatched) THEN dispatched[j] ELSE 0)}

\* C33: the shared index never goes back, the tasks a step of a fleet
\* hands to the runner are the ones from the shared index on, with none
\* left out, and so a task is never handed to the runner (nor its
\* subprocess spawned) while a task before it has not been.
C33_FirstComeFirstServed ==
    [][/\ nextIndex' >= nextIndex
       /\ Len(workers') > 0 => NewlyDispatched = (nextIndex + 1)..nextIndex'
       /\ \A j \in 1..Len(runner') :
             (dispatched'[j] > 0 \/ runner'[j].proc # "none")
                 => \A i \in 1..(j - 1) : dispatched'[i] > 0]_vars

\* The fifth task of a fleet was drawn when the third one had resolved,
\* with the first two still running.
C33_Witness ==
    /\ Len(workers) = MAX_CONCURRENCY
    /\ nextIndex = 5
    /\ dispatched[5] = 1
    /\ runner[5].proc = "running"
    /\ runner[3].st = "resolved"
    /\ runner[1].st = "pending"
    /\ runner[2].st = "pending"
    /\ Len(Fleet) > 5
    /\ dispatched[6] = 0

(***************************************************************************)
(* Results and submissions, position by position                           *)
(***************************************************************************)
\* The result is the one of the i-th submitted task: its task text, and the
\* model its token resolves to.
IsOfTask(res, i) ==
    /\ res.task = Fleet[i].task
    /\ res.model = resolveModel(models, Fleet[i].model).spec

\* C34: in a fleet, position i holds the result of the i-th submitted task
\* in the results of the runners (what mapWithConcurrency collects), in
\* what the slots of allResults reference, in the update the caller was
\* last handed and in the details of the final result.
C34_ResultsIndexAligned ==
    Len(workers) > 0 =>
        /\ \A i \in 1..Len(runner) : runner[i].st # "none" => IsOfTask(runner[i].result, i)
        /\ \A i \in 1..Len(allResults) :
              IsOfTask(Deref(allResults, runner, Fleet, models, i), i)
        /\ Len(snapshot.seen) \in {0, Len(Fleet)}
        /\ \A i \in 1..Len(snapshot.seen) : IsOfTask(snapshot.seen[i], i)
        /\ FleetReturned =>
              /\ Len(ret.details) = Len(Fleet)
              /\ \A i \in 1..Len(Fleet) : IsOfTask(ret.details[i], i)

\* In a fleet of six the second task ended before the first one, and the
\* worker that had run it drew the fifth: the update shows the second
\* position done, the first one running and the fifth task in the fifth.
C34_Witness ==
    /\ Len(Fleet) = 6
    /\ pc = "await"
    /\ runner[2].st = "resolved"
    /\ runner[1].st = "pending"
    /\ workers[2].index = 5
    /\ Len(snapshot.seen) = 6
    /\ snapshot.seen[2].exitCode = 0
    /\ snapshot.seen[1].exitCode = -1
    /\ snapshot.seen[5].task = Fleet[5].task
    /\ Fleet[5].task # Fleet[2].task

\* The fleet has returned, its first task having failed and its second
\* one succeeded.
C34_ReturnedWitness ==
    /\ FleetReturned
    /\ Len(Fleet) = 6
    /\ ret.details[1].exitCode = 2
    /\ ret.details[2].exitCode = 0
    /\ ret.details[5].task = Fleet[5].task

(***************************************************************************)
(* The worker pool while tasks remain                                      *)
(***************************************************************************)
\* C35: in a fleet, while a task is unclaimed, the runners in flight are as
\* many as the pool has workers, min(MAX_CONCURRENCY, task count); and a
\* step in which a runner resolves while a task is unclaimed claims it.
C35_WorkConserving ==
    [][/\ (Len(workers) > 0 /\ nextIndex < Len(Fleet))
              => Cardinality(InFlight) = Min(MAX_CONCURRENCY, Len(Fleet))
       /\ (Len(workers) > 0 /\ nextIndex < Len(Fleet)
             /\ \E i \in InFlight : runner'[i].st = "resolved")
              => nextIndex' = nextIndex + 1]_vars

\* A task is unclaimed and fewer runners are in flight than the pool has
\* workers: a worker ended when the spawn of its task threw.
C35_Witness ==
    /\ Len(workers) = MAX_CONCURRENCY
    /\ nextIndex < Len(Fleet)
    /\ Cardinality(InFlight) < MAX_CONCURRENCY
    /\ AnyRejected(workers)

\* The same with no spawn that throws: the pool stays full.
C35_WorkConservingWithoutThrow ==
    [][/\ (Len(workers) > 0 /\ nextIndex < Len(Fleet) /\ ~AnyRejected(workers))
              => Cardinality(InFlight) = Min(MAX_CONCURRENCY, Len(Fleet))
       /\ (Len(workers) > 0 /\ nextIndex < Len(Fleet)
             /\ \E i \in InFlight : runner'[i].st = "resolved")
              => nextIndex' = nextIndex + 1]_vars

C35_FullPoolWitness ==
    /\ Len(workers) = MAX_CONCURRENCY
    /\ nextIndex = 5
    /\ nextIndex < Len(Fleet)
    /\ Cardinality(InFlight) = MAX_CONCURRENCY
    /\ runner[1].st = "resolved"

(***************************************************************************)
(* Cancellation and the tasks that had ended                               *)
(***************************************************************************)
\* The fields of a result the caller reads.
SameOutcome(a, b) ==
    /\ a.exitCode = b.exitCode
    /\ a.output = b.output
    /\ a.usage = b.usage
    /\ a.stopReason = b.stopReason
    /\ a.errorMessage = b.errorMessage

\* The signal is raised in the step, or was raised before it.
AtOrAfterAbort == aborted'

\* C36: from the step that raises the signal on, a result whose runner had
\* resolved keeps its exit code, output, usage, stop reason and error
\* message in every step, the one that raises the signal included, and the
\* step that returns the final result puts these values in its details.
C36_CancelKeepsResolvedResults ==
    [][AtOrAfterAbort =>
          \A i \in 1..Len(runner) :
             runner[i].st = "resolved" =>
                /\ SameOutcome(runner'[i].result, runner[i].result)
                /\ (pc # "returned" /\ pc' = "returned" /\ ret'.kind \in {"single", "parallel"})
                      => SameOutcome(ret'.details[i], runner[i].result)]_vars

\* A fleet of two has returned after the signal was raised between the end
\* of its first task and the end of its second: the first result is the
\* success it was, the second one is aborted.
C36_Witness ==
    /\ FleetReturned
    /\ aborted
    /\ Len(Fleet) = 2
    /\ runner[1].wasAborted
    /\ runner[1].sigs = <<>>
    /\ ret.details[1].exitCode = 0
    /\ ret.details[1].stopReason = ""
    /\ ret.details[1].errorMessage = <<>>
    /\ IsAborted(ret.details[2])

(***************************************************************************)
(* Cancellation and the tasks still queued                                 *)
(***************************************************************************)
\* C37: when a fleet returns, every task has been claimed once and no
\* result of its details shows exit code -1. With the signal raised, a
\* worker whose runner resolves still claims the next task; a task handed
\* to the runner then is aborted at its launch (its subprocess, if it was
\* spawned, is sent SIGTERM at once), and a runner that was aborted before
\* it resolved resolves with stopReason "aborted".
C37_QueuedTasksEndAborted ==
    [][/\ FleetReturned' =>
             /\ nextIndex' = Len(Fleet)
             /\ \A i \in 1..Len(Fleet) :
                   dispatched'[i] = 1 /\ ret'.details[i].exitCode # -1
       /\ (aborted /\ Len(workers) > 0 /\ nextIndex < Len(Fleet)
             /\ \E i \in InFlight : runner'[i].st = "resolved")
              => nextIndex' = nextIndex + 1
       /\ aborted =>
             \A j \in NewlyDispatched :
                \/ runner'[j].st = "rejected"
                \/ /\ runner'[j].wasAborted
                   /\ runner'[j].proc = "running" => runner'[j].sigs = <<"SIGTERM">>
       /\ \A i \in 1..Len(runner) :
             (runner[i].st = "pending" /\ runner[i].wasAborted /\ runner'[i].st = "resolved")
                 => IsAborted(runner'[i].result)]_vars

\* A fleet of five has returned with every result aborted: the signal was
\* raised before the first task ended, so the fifth was still unclaimed.
C37_Witness ==
    /\ FleetReturned
    /\ aborted
    /\ Len(Fleet) = 5
    /\ \A i \in 1..5 : IsAborted(ret.details[i]) /\ ret.details[i].exitCode # -1
    /\ runner[5].sigs = <<"SIGTERM">>

(***************************************************************************)
(* The error flag in single mode and in parallel mode                      *)
(***************************************************************************)
\* A fleet of one task has returned its final result.
OneTaskFleetReturned == FleetReturned /\ Len(Fleet) = 1

\* The error flag the other mode returns for the terminal result.
AsSingle == SingleResult(ret.details[1], models).isError

AsParallel == ParallelResult(<<"live">>, runner, <<>>, models).isError

\* C38: a fleet of one task is returned with the error flag a single-mode
\* call ending with the same result has, and a single-mode call with the
\* flag a fleet of one task ending with the same result has.
C38_SameClassification ==
    /\ OneTaskFleetReturned => ret.isError = AsSingle
    /\ SingleReturned => ret.isError = AsParallel

\* A fleet of one task returned without the error flag a result that
\* single mode flags: exit code 0 with stopReason "aborted" or "error".
C38_Witness ==
    /\ OneTaskFleetReturned
    /\ ~ret.isError
    /\ ret.details[1].exitCode = 0
    /\ ret.details[1].stopReason = "aborted"

C38_ErrorStopWitness ==
    /\ OneTaskFleetReturned
    /\ ~ret.isError
    /\ ret.details[1].exitCode = 0
    /\ ret.details[1].stopReason = "error"

\* The two modes agree on every result whose stopReason is neither "error"
\* nor "aborted".
C38_SameWhenExitCodeDecides ==
    /\ (OneTaskFleetReturned /\ ret.details[1].stopReason \notin {"error", "aborted"})
          => ret.isError = AsSingle
    /\ (SingleReturned /\ ret.details[1].stopReason \notin {"error", "aborted"})
          => ret.isError = AsParallel

C38_AgreeWitness ==
    /\ OneTaskFleetReturned
    /\ ret.isError
    /\ ret.details[1].exitCode = 2

(***************************************************************************)
(* The agent loop of the compaction handler                                *)
(***************************************************************************)
Last(s) == s[Len(s)]

\* C39: one handling by the agent loop makes at most maxTurns completion
\* calls; when all maxTurns turns returned tool calls it has returned no
\* compaction result, with an empty summary and a warning as its last
\* notification; and the step that returns a compaction result is a
\* completion without tool calls whose text, not blank, is the summary.
C39_AgentLoopTerminates ==
    [][compact'.variant = "agent" =>
          /\ compact'.calls <= maxTurns
          /\ compact'.turn <= maxTurns
          /\ compact'.calls <= compact'.turn + 1
          /\ (compact'.pc = "returned" /\ compact'.turn = maxTurns) =>
                /\ compact'.out = "default"
                /\ compact'.summary = <<>>
                /\ compact'.calls = maxTurns
                /\ Last(compact'.notes) = "warning"
          /\ compact'.out = "compaction" =>
                /\ compact'.pc = "returned"
                /\ Len(trim(compact'.summary)) > 0
                /\ compact'.turn < maxTurns
                /\ compact.out # "compaction" =>
                      /\ compact.pc = "complete"
                      /\ compact.summary = <<>>
                      /\ \E content \in Responses :
                            /\ Len(toolCalls(content)) = 0
                            /\ compact'.summary = textOf(content)]_vars

\* All ten turns returned tool calls: default compaction with a warning.
C39_Witness ==
    /\ compact.variant = "agent"
    /\ compact.pc = "returned"
    /\ compact.turn = maxTurns
    /\ compact.calls = maxTurns
    /\ compact.execs > 0
    /\ compact.out = "default"
    /\ compact.notes = <<"info", "warning">>

\* A compaction result after turns with tool calls.
C39_SummaryWitness ==
    /\ compact.variant = "agent"
    /\ compact.out = "compaction"
    /\ compact.turn = maxTurns - 1
    /\ compact.calls = maxTurns
    /\ compact.summary = <<"s">>

(***************************************************************************)
(* Failures and cancellation in the compaction handler                     *)
(***************************************************************************)
\* A completion call or the tool calls of a turn fail.
LoopFails == CompletionFails \/ ToolsDone(FALSE)

\* The step brings the agent loop to the start of a turn: the key was
\* fetched, or a turn with tool calls is over and turns remain.
StartsTurn ==
    /\ compact.variant = "agent"
    /\ \/ \E outcome \in {"key", "none"} : ApiKey(outcome)
       \/ /\ compact.turn + 1 < maxTurns
          /\ \/ ToolsDone(TRUE)
             \/ \E content \in Responses :
                   /\ Len(toolCalls(content)) > 0
                   /\ \A j \in 1..Len(content) : content[j].name \notin ToolNames
                   /\ Completion(content)

Errors(notes) == Cardinality({j \in 1..Len(notes) : notes[j] = "error"})

\* The handler returns no compaction result, makes no completion call and
\* notifies no error.
SilentFallback ==
    /\ compact'.pc = "returned"
    /\ compact'.out = "default"
    /\ compact'.calls = compact.calls
    /\ Errors(compact'.notes) = 0

\* The handler returns no compaction result after one error notification.
ReportedFallback ==
    /\ compact'.pc = "returned"
    /\ compact'.out = "default"
    /\ compact'.calls = compact.calls
    /\ compact'.notes = Append(compact.notes, "error")
    /\ Errors(compact'.notes) = 1

\* C40: with the signal aborted, a step that starts a turn of the agent
\* loop and a step in which a completion or a tool call fails end the
\* handler with no further completion call, no compaction result and no
\* error notification; with the signal not aborted a failing step ends it
\* with default compaction and one error notification; and the handler
\* never throws from inside the loop (only a rejected getApiKey, before
\* it, escapes).
C40_FailuresFallBack ==
    [][/\ (compact.aborted /\ (StartsTurn \/ LoopFails)) => SilentFallback
       /\ (~compact.aborted /\ LoopFails) => ReportedFallback
       /\ (compact'.pc = "threw" /\ compact.pc # "threw") => compact.pc = "key"]_vars

\* The agent loop was cancelled during its second turn and returned
\* without a word after the info notification.
C40_Witness ==
    /\ compact.variant = "agent"
    /\ compact.aborted
    /\ compact.pc = "returned"
    /\ compact.out = "default"
    /\ compact.turn = 1
    /\ compact.calls = 2
    /\ compact.execs > 0
    /\ compact.notes = <<"info">>

\* A failure in the third turn with the signal not aborted.
C40_ReportedWitness ==
    /\ compact.variant = "agent"
    /\ ~compact.aborted
    /\ compact.pc = "returned"
    /\ compact.out = "default"
    /\ compact.turn = 2
    /\ compact.notes = <<"info", "error">>

\* The earlier form: its completion failed, cancelled or not.
C40_EarlierWitness ==
    /\ compact.variant = "prompt"
    /\ compact.pc = "returned"
    /\ compact.calls = 1
    /\ compact.notes = <<"info", "error">>
====
